---- MODULE Spec2Model ----
(***************************************************************************)
(* A model of the combustion-rust-ble probe stack: the byte decoders for   *)
(* advertising and session-status payloads, the per-probe state            *)
(* reconciler (Probe), the connection manager and the session's            *)
(* background tasks.                                                       *)
(*                                                                         *)
(* Units.  Instants and durations are whole seconds.  Temperatures are     *)
(* kept as the integer the decoder multiplies: a raw sensor value r        *)
(* stands for r*0.05-20 degrees and is kept in 1/100 degree (5r-2000), a   *)
(* prediction or alarm value in 1/10 degree.  Option<T> is a sequence of   *)
(* length 0 (None) or 1 (Some).                                            *)
(***************************************************************************)
EXTENDS Integers, Sequences, FiniteSets, TLC

VARIABLES
    now,                  \* the monotonic clock read by Instant::now()
    state,                \* Probe.state : ProbeState
    is_stale,             \* Probe.is_stale : AtomicBool
    sent,                 \* broadcast messages sent, transport writes made
                          \* and decode failures logged by the last step
    result,               \* return value of the last completed Probe call
    conn_state,           \* ConnectionManager.state
    maintain_connection,  \* ConnectionManager.maintain_connection
    characteristics,      \* Probe.characteristics is Some(handler)
    pc,                   \* per caller: position inside the call it makes
    current_state,        \* per caller: the local current_state
    maintain,             \* per caller: the maintain argument
    attempts,             \* per caller: the local attempts counter
    ret,                  \* per caller: value returned by the call
    transport_calls,      \* per caller: peripheral.connect() calls made
    is_listening,         \* CharacteristicHandler.is_listening
    listener,             \* the notification listener task
    handler_task,         \* the status notification handler task
    stream,               \* notifications the peripheral has still to deliver
    rx,                   \* the handler task's broadcast receiver queue
    session,              \* position of Probe::connect / Probe::disconnect
    input,                \* the argument a codec function is applied to
    output,               \* what the codec function returned
    probes,               \* DeviceManager.probes, by serial number
    is_running,           \* DeviceManager.is_running
    is_scanning,          \* BleScanner.is_scanning
    background,           \* the DeviceManager's background task
    scan_task,            \* the BleScanner's event processing task
    events,               \* the background task's broadcast receiver queue
    manager_call,         \* position of the DeviceManager call in progress
    manager_ret,          \* the last DeviceManager call that returned
    data_points,          \* TemperatureLog.data_points
    scan_tasks,           \* the event tasks BleScanner has spawned
    background_tasks,     \* the background tasks DeviceManager has spawned
    scan_handle,          \* BleScanner.scan_handle
    background_handle,    \* DeviceManager.background_handle
    joined,               \* per caller: the task handle it awaits
    guards,               \* callers holding a read guard of Probe.characteristics
    blocked,              \* callers whose thread waits inside a lock call
    workers               \* threads of the executor that polls the tasks

probeVars == <<now, state, is_stale, sent, result>>
connVars == <<conn_state, maintain_connection>>
callVars == <<pc, current_state, maintain, attempts, ret, transport_calls>>
queueVars == <<listener, stream, rx, session>>
taskVars == <<is_listening, listener, handler_task, stream, rx, session>>
codecVars == <<input, output>>
logVars == <<data_points>>
spawnVars == <<scan_tasks, background_tasks, scan_handle, background_handle,
               joined>>
lockVars == <<guards, blocked, workers>>
managerVars == <<probes, is_running, is_scanning, background, scan_task,
                 events, manager_call, manager_ret, spawnVars, lockVars>>
vars == <<now, state, is_stale, sent, result, conn_state, maintain_connection,
          characteristics, pc, current_state, maintain, attempts, ret,
          transport_calls, is_listening, listener, handler_task, stream, rx,
          session, input, output, probes, is_running, is_scanning, background,
          scan_task, events, manager_call, manager_ret, data_points,
          scan_tasks, background_tasks, scan_handle, background_handle,
          joined, guards, blocked, workers>>

(***************************************************************************)
(* Bounds of the model.                                                    *)
(***************************************************************************)
MaxTime == 5
MaxStream == 2
MaxElapsed == 16
MaxPayload == 3
MaxAdvLen == 24
MaxStatusLen == 95
TempMargin == 60
MaxEvents == 1
MaxSequence == 4
MaxTasks == 2
MaxWorkers == 2

(***************************************************************************)
(* Program constants.                                                      *)
(***************************************************************************)
ID_COLOR_GRACE_PERIOD == 5
DEFAULT_STALE_TIMEOUT == 15
ADV_MIN_SIZE == 20
STATUS_MIN_SIZE == 30
ALARM_COUNT == 11
INVALID_RAW == 8191
MAX_VALUE == 8190
max_reconnect_attempts == 3

None == <<>>
Some(v) == <<v>>
IsSome(o) == Len(o) = 1
Unwrap(o) == o[1]

(***************************************************************************)
(* Byte and bit helpers.  data is a sequence of bytes; At reads it with    *)
(* the 0-based index the source uses.                                      *)
(***************************************************************************)
At(data, i) == data[i + 1]
Shr(x, n) == x \div (2 ^ n)
Low(x, n) == x % (2 ^ n)
Shl16(x, n) == (x * (2 ^ n)) % 65536
Slice(data, from, to) == [i \in 1..(to - from) |-> data[from + i]]
U32Le(data, i) ==
    At(data, i) + 256 * At(data, i + 1) + 65536 * At(data, i + 2)
        + 16777216 * At(data, i + 3)

(***************************************************************************)
(* Enumerations.                                                           *)
(***************************************************************************)
ProductType_from_raw(value) ==
    CASE value = 1 -> "PredictiveProbe"
      [] value = 2 -> "MeatNetRepeater"
      [] value = 3 -> "GiantGrillGauge"
      [] value = 4 -> "Display"
      [] value = 5 -> "Booster"
      [] OTHER -> "Unknown"

\* Variant of is_predictive_probe that accepts every known product.
is_known_product(product_type) == product_type # "Unknown"

is_predictive_probe(product_type) == product_type = "PredictiveProbe"

ProbeMode_from_raw(value) ==
    CASE Low(value, 2) = 0 -> "Normal"
      [] Low(value, 2) = 1 -> "InstantRead"
      [] Low(value, 2) = 2 -> "Reserved"
      [] OTHER -> "Error"

BatteryStatus_from_raw(value) == IF value = 0 THEN "Ok" ELSE "Low"

ProbeColor_from_raw(value) ==
    CASE Low(value, 3) = 0 -> "Yellow"
      [] Low(value, 3) = 1 -> "Grey"
      [] Low(value, 3) = 2 -> "Red"
      [] Low(value, 3) = 3 -> "Orange"
      [] Low(value, 3) = 4 -> "Blue"
      [] Low(value, 3) = 5 -> "Green"
      [] Low(value, 3) = 6 -> "Purple"
      [] OTHER -> "Pink"

ProbeColor_to_raw(color) ==
    CASE color = "Yellow" -> 0
      [] color = "Grey" -> 1
      [] color = "Red" -> 2
      [] color = "Orange" -> 3
      [] color = "Blue" -> 4
      [] color = "Green" -> 5
      [] color = "Purple" -> 6
      [] OTHER -> 7

Clamp(v, lo, hi) == IF v < lo THEN lo ELSE IF v > hi THEN hi ELSE v
ProbeId_new(value) == Clamp(value, 1, 8)
ProbeId_from_raw(value) == ProbeId_new(Low(value, 3) + 1)

PredictionState_from_raw(value) ==
    CASE value = 0 -> "ProbeNotInserted"
      [] value = 1 -> "ProbeInserted"
      [] value = 2 -> "Warming"
      [] value = 3 -> "Predicting"
      [] value = 4 -> "RemovalPredictionDone"
      [] value = 5 -> "ReservedState5"
      [] value = 6 -> "ReservedState6"
      [] OTHER -> "Unknown"

PredictionMode_from_raw(value) ==
    CASE value = 0 -> "None"
      [] value = 1 -> "TimeToRemoval"
      [] value = 2 -> "RemovalAndResting"
      [] OTHER -> "Reserved"

PredictionType_from_raw(value) ==
    CASE value = 0 -> "None"
      [] value = 1 -> "Removal"
      [] value = 2 -> "Resting"
      [] OTHER -> "Reserved"

FoodSafeMode_from_raw(value) ==
    CASE Low(value, 3) = 0 -> "Simplified"
      [] Low(value, 3) = 1 -> "Integrated"
      [] OTHER -> "Simplified"

Serving_from_raw(value) ==
    CASE Low(value, 3) = 0 -> "ServedImmediately"
      [] Low(value, 3) = 1 -> "CookedAndChilled"
      [] OTHER -> "ServedImmediately"

FoodSafeState_from_raw(value) ==
    CASE Low(value, 3) = 0 -> "NotSafe"
      [] Low(value, 3) = 1 -> "Safe"
      [] Low(value, 3) = 2 -> "SafetyImpossible"
      [] OTHER -> "NotSafe"

FoodSafeServingState_from_state(s) ==
    IF s = "Safe" THEN "SafeToServe" ELSE "NotSafe"

\* Variant of PowerMode::from_raw that reads reserved values as AlwaysOn.
PowerMode_from_raw_reserved_on(value) ==
    CASE Low(value, 2) = 0 -> "Normal"
      [] OTHER -> "AlwaysOn"

PowerMode_from_raw(value) ==
    CASE Low(value, 2) = 0 -> "Normal"
      [] Low(value, 2) = 1 -> "AlwaysOn"
      [] OTHER -> "Normal"

(***************************************************************************)
(* Temperatures.                                                           *)
(***************************************************************************)
RawTemperature_new(value) == Low(value, 13)

RawTemperature_to_celsius(raw) ==
    IF raw = INVALID_RAW THEN None ELSE Some(raw * 5 - 2000)

ProbeTemperatures_new == [i \in 1..8 |-> INVALID_RAW]

\* data holds the 13 packed bytes; value i (0-based) starts at bit 13*i.
PackedValue(data, i) ==
    LET bit_offset == 13 * i
        byte_offset == bit_offset \div 8
        bit_position == bit_offset % 8
        two == Shr(At(data, byte_offset), bit_position)
                 + Shl16(At(data, byte_offset + 1), 8 - bit_position)
    IN  IF bit_position <= 3
        THEN RawTemperature_new(two)
        ELSE RawTemperature_new(
                 two + Shl16(At(data, byte_offset + 2), 16 - bit_position))

\* Variant of from_packed_bytes that refuses the invalid-reading sentinel.
ProbeTemperatures_from_packed_bytes_checked(data) ==
    IF Len(data) < 13 \/ \E i \in 1..8 : PackedValue(data, i - 1) = INVALID_RAW
    THEN None
    ELSE Some([i \in 1..8 |-> PackedValue(data, i - 1)])

ProbeTemperatures_from_packed_bytes(data) ==
    IF Len(data) < 13 THEN None
    ELSE Some([i \in 1..8 |-> PackedValue(data, i - 1)])

ProbeTemperatures_to_celsius(values) ==
    [i \in 1..8 |-> RawTemperature_to_celsius(values[i])]

VirtualSensorSelection_new(core_sensor, surface_sensor, ambient_sensor) ==
    [core_sensor |-> core_sensor, surface_sensor |-> surface_sensor,
     ambient_sensor |-> ambient_sensor]

VirtualSensorSelection_default == VirtualSensorSelection_new(0, 0, 0)

VirtualSensorSelection_from_byte(byte) ==
    VirtualSensorSelection_new(Low(byte, 3), Low(Shr(byte, 3), 2) + 3,
                               Low(Shr(byte, 5), 2) + 4)

VirtualTemperatures_with_selection(core, surface, ambient, sensor_selection) ==
    [core |-> core, surface |-> surface, ambient |-> ambient,
     sensor_selection |-> sensor_selection]

VirtualTemperatures_default ==
    VirtualTemperatures_with_selection(None, None, None,
                                       VirtualSensorSelection_default)

(***************************************************************************)
(* AdvertisingData::parse.  The result is None for Err(InvalidData).       *)
(***************************************************************************)
compute_virtual_temps(temperatures, virtual_sensors_byte) ==
    LET sel == VirtualSensorSelection_from_byte(virtual_sensors_byte)
        core == IF sel.core_sensor < 6
                THEN RawTemperature_to_celsius(temperatures[sel.core_sensor + 1])
                ELSE None
        surface == IF sel.surface_sensor < 8
                   THEN RawTemperature_to_celsius(
                            temperatures[sel.surface_sensor + 1])
                   ELSE None
        ambient == IF sel.ambient_sensor < 8
                   THEN RawTemperature_to_celsius(
                            temperatures[sel.ambient_sensor + 1])
                   ELSE None
    IN  VirtualTemperatures_with_selection(core, surface, ambient, sel)

AdvertisingData_parse(data) ==
    IF Len(data) < ADV_MIN_SIZE THEN None
    ELSE
      LET temps == ProbeTemperatures_from_packed_bytes(Slice(data, 5, 18))
          mode_id_byte == At(data, 18)
          status_byte == At(data, 19)
      IN  IF ~IsSome(temps) THEN None
          ELSE Some([
            product_type |-> ProductType_from_raw(At(data, 0)),
            serial_number |-> U32Le(data, 1),
            temperatures |-> Unwrap(temps),
            mode |-> ProbeMode_from_raw(Low(mode_id_byte, 2)),
            probe_id |-> ProbeId_from_raw(Low(Shr(mode_id_byte, 5), 3)),
            color |-> ProbeColor_from_raw(Low(Shr(mode_id_byte, 2), 3)),
            battery_status |-> BatteryStatus_from_raw(Low(status_byte, 1)),
            virtual_temperatures |->
                compute_virtual_temps(Unwrap(temps), Shr(status_byte, 1)),
            overheating_sensors |->
                IF Len(data) >= 22 THEN At(data, 21) ELSE 0])

(***************************************************************************)
(* Configuration codecs (decode side).                                     *)
(***************************************************************************)
AlarmStatus_default ==
    [set |-> FALSE, tripped |-> FALSE, alarming |-> FALSE, temperature |-> 0]

AlarmStatus_new(temperature, enabled) ==
    [set |-> enabled, tripped |-> FALSE, alarming |-> FALSE,
     temperature |-> temperature]

\* temperature is (temp_raw * 0.1) - 20, kept in 1/10 degree.
AlarmStatus_from_bytes(bytes) ==
    IF Len(bytes) < 2 THEN None
    ELSE
      LET packed == At(bytes, 0) + 256 * At(bytes, 1)
      IN  Some([set |-> Low(packed, 1) # 0,
                tripped |-> Low(Shr(packed, 1), 1) # 0,
                alarming |-> Low(Shr(packed, 2), 1) # 0,
                temperature |-> Low(Shr(packed, 3), 13) - 200])

AlarmConfig_new ==
    [high_alarms |-> [i \in 1..ALARM_COUNT |-> AlarmStatus_default],
     low_alarms |-> [i \in 1..ALARM_COUNT |-> AlarmStatus_default]]

AlarmConfig_from_bytes(bytes) ==
    IF Len(bytes) < 2 * 2 * ALARM_COUNT THEN None
    ELSE Some([
        high_alarms |-> [i \in 1..ALARM_COUNT |->
            Unwrap(AlarmStatus_from_bytes(
                Slice(bytes, (i - 1) * 2, (i - 1) * 2 + 2)))],
        low_alarms |-> [i \in 1..ALARM_COUNT |->
            Unwrap(AlarmStatus_from_bytes(
                Slice(bytes, 2 * ALARM_COUNT + (i - 1) * 2,
                      2 * ALARM_COUNT + (i - 1) * 2 + 2)))]])

set_core_high_alarm(config, temperature, enabled) ==
    [config EXCEPT !.high_alarms[9] = AlarmStatus_new(temperature, enabled)]

ThermometerPreferences_with_power_mode(power_mode) ==
    [power_mode |-> power_mode, reserved |-> 0]

ThermometerPreferences_from_byte(byte) ==
    [power_mode |-> PowerMode_from_raw(Low(byte, 2)),
     reserved |-> Low(Shr(byte, 2), 6)]

\* The four scalars are raw * 0.05, kept in 1/100; the log reduction is
\* raw * 0.1, kept in 1/10.
FoodSafeConfig_from_bytes(bytes) ==
    IF Len(bytes) < 10 THEN None
    ELSE
      LET b(i) == At(bytes, i)
          threshold_raw == b(2) + 256 * Low(b(3), 5)
          z_raw == Shr(b(3), 5) + 8 * b(4) + 2048 * Low(b(5), 2)
          ref_raw == Shr(b(5), 2) + 64 * Low(b(6), 7)
          d_raw == Shr(b(6), 7) + 2 * b(7) + 512 * Low(b(8), 4)
          log_raw == Shr(b(8), 4) + 16 * Low(b(9), 4)
      IN  Some([mode |-> FoodSafeMode_from_raw(Low(b(0), 3)),
                product |-> Shr(b(0), 3) + 32 * Low(b(1), 5),
                serving |-> Serving_from_raw(Low(Shr(b(1), 5), 3)),
                threshold_temperature |-> Low(threshold_raw, 13) * 5,
                z_value |-> Low(z_raw, 13) * 5,
                reference_temperature |-> Low(ref_raw, 13) * 5,
                d_value_at_reference |-> Low(d_raw, 13) * 5,
                target_log_reduction |-> log_raw])

FoodSafeStatus_from_bytes(bytes) ==
    IF Len(bytes) < 8 THEN None
    ELSE
      LET b(i) == At(bytes, i)
      IN  Some([state |-> FoodSafeState_from_raw(Low(b(0), 3)),
                log_reduction |-> Low(Shr(b(0), 3) + 32 * Low(b(1), 3), 8),
                seconds_above_threshold |->
                    Shr(b(1), 3) + 32 * b(2) + 8192 * Low(b(3), 3),
                sequence_number |->
                    Shr(b(3), 3) + 32 * b(4) + 8192 * b(5) + 2097152 * b(6)
                        + 536870912 * Low(b(7), 3)])

(***************************************************************************)
(* ProbeStatus::parse.  The result is None for Err(InvalidData).           *)
(***************************************************************************)
parse_virtual_temps_from_config(config_byte, temperatures) ==
    LET core_index == Low(Shr(config_byte, 1), 3)
        surface_index == 3 + Low(Shr(config_byte, 4), 2)
        ambient_index == 4 + Low(Shr(config_byte, 6), 2)
        celsius == ProbeTemperatures_to_celsius(temperatures)
    IN  VirtualTemperatures_with_selection(
            IF core_index < 8 THEN celsius[core_index + 1] ELSE None,
            IF surface_index < 8 THEN celsius[surface_index + 1] ELSE None,
            IF ambient_index < 8 THEN celsius[ambient_index + 1] ELSE None,
            VirtualSensorSelection_new(core_index, surface_index,
                                       ambient_index))

\* set point and heat start are raw * 0.1, the estimated core temperature is
\* raw * 0.1 - 20; all three are kept in 1/10 degree.
parse_prediction_status(data) ==
    IF Len(data) < 7 THEN None
    ELSE
      LET b(i) == At(data, i)
      IN  Some([
            state |-> PredictionState_from_raw(Low(b(0), 4)),
            mode |-> PredictionMode_from_raw(Low(Shr(b(0), 4), 2)),
            prediction_type |-> PredictionType_from_raw(Low(Shr(b(0), 6), 2)),
            set_point_temperature |-> b(1) + 256 * Low(b(2), 2),
            heat_start_temperature |-> Shr(b(2), 2) + 64 * Low(b(3), 4),
            prediction_value_seconds |->
                Shr(b(3), 4) + 16 * b(4) + 4096 * Low(b(5), 5),
            estimated_core_temperature |-> (Shr(b(5), 5) + 8 * b(6)) - 200,
            seconds_since_prediction_start |-> 0,
            core_sensor_index |-> 0])

\* The optional trailing sections of the status payload, each present when
\* the payload is long enough to hold it (layout of the parse doc comment).
status_food_safe_config(data) ==
    IF Len(data) >= 40 THEN FoodSafeConfig_from_bytes(Slice(data, 30, 40))
    ELSE None

status_food_safe_status(data) ==
    IF Len(data) >= 48 THEN FoodSafeStatus_from_bytes(Slice(data, 40, 48))
    ELSE None

status_thermometer_preferences(data) ==
    IF Len(data) >= 50 THEN Some(ThermometerPreferences_from_byte(At(data, 49)))
    ELSE None

status_alarm_config(data) ==
    IF Len(data) >= 94 THEN AlarmConfig_from_bytes(Slice(data, 50, 94))
    ELSE None

ProbeStatus_parse(data) ==
    IF Len(data) < STATUS_MIN_SIZE THEN None
    ELSE
      LET temps == ProbeTemperatures_from_packed_bytes(Slice(data, 8, 21))
          mode_id_byte == At(data, 21)
      IN  IF ~IsSome(temps) THEN None
          ELSE Some([
            min_sequence_number |-> U32Le(data, 0),
            max_sequence_number |-> U32Le(data, 4),
            temperatures |-> Unwrap(temps),
            mode |-> ProbeMode_from_raw(Low(mode_id_byte, 2)),
            probe_id |-> ProbeId_from_raw(Low(Shr(mode_id_byte, 5), 3)),
            color |-> ProbeColor_from_raw(Low(Shr(mode_id_byte, 2), 3)),
            battery_status |-> BatteryStatus_from_raw(Low(At(data, 22), 1)),
            virtual_temperatures |->
                parse_virtual_temps_from_config(At(data, 22), Unwrap(temps)),
            prediction |-> parse_prediction_status(Slice(data, 23, 30)),
            overheating |-> IF Len(data) > 48 THEN At(data, 48) ELSE 0,
            food_safe_config |-> status_food_safe_config(data),
            food_safe_status |-> status_food_safe_status(data),
            thermometer_preferences |-> status_thermometer_preferences(data),
            alarm_config |-> status_alarm_config(data)])

(***************************************************************************)
(* FoodSafeData.                                                           *)
(***************************************************************************)
FoodSafeConfig_default ==
    [mode |-> "Simplified", product |-> 0, serving |-> "ServedImmediately",
     threshold_temperature |-> 5440, z_value |-> 550,
     reference_temperature |-> 7000, d_value_at_reference |-> 500,
     target_log_reduction |-> 65]

FoodSafeData_with_config(config) ==
    [product |-> "BeefSteak", serving_state |-> "NotSafe", log_reduction |-> 0,
     seconds_above_threshold |-> 0, config |-> Some(config), status |-> None]

FoodSafeData_from_config_and_status(config, status) ==
    [product |-> "BeefSteak",
     serving_state |-> FoodSafeServingState_from_state(status.state),
     log_reduction |-> status.log_reduction,
     seconds_above_threshold |-> status.seconds_above_threshold,
     config |-> Some(config), status |-> Some(status)]

FoodSafeData_update_config(fsd, config) == [fsd EXCEPT !.config = Some(config)]

FoodSafeData_update_from_status(fsd, status) ==
    [fsd EXCEPT !.serving_state = FoodSafeServingState_from_state(status.state),
                !.log_reduction = status.log_reduction,
                !.seconds_above_threshold = status.seconds_above_threshold,
                !.status = Some(status)]

(***************************************************************************)
(* ProbeState and the reconciler's pure state transformers.  st is the     *)
(* ProbeState before, t the value of Instant::now() read under the lock.   *)
(***************************************************************************)
ProbeState_new(serial_number, t) ==
    [serial_number |-> serial_number,
     probe_id |-> 0,
     color |-> "Yellow",
     probe_id_set_at |-> None,
     color_set_at |-> None,
     temperatures |-> ProbeTemperatures_new,
     virtual_temperatures |-> VirtualTemperatures_default,
     prediction |-> None,
     battery_status |-> "Ok",
     mode |-> "Normal",
     overheating |-> 0,
     min_sequence |-> 0,
     max_sequence |-> 0,
     food_safe_data |-> None,
     session_info |-> None,
     rssi |-> None,
     last_update |-> t,
     thermometer_preferences |-> None,
     alarm_config |-> None]

\* Variant of in_grace_period that still holds the local value at exactly
\* five seconds.
in_grace_period_inclusive(set_at, t) ==
    IsSome(set_at) /\ t - Unwrap(set_at) <= ID_COLOR_GRACE_PERIOD

in_grace_period(set_at, t) ==
    IF IsSome(set_at) THEN t - Unwrap(set_at) < ID_COLOR_GRACE_PERIOD
    ELSE FALSE

update_from_advertising(st, adv_data, rssi, t) ==
    [st EXCEPT
        !.temperatures = adv_data.temperatures,
        !.virtual_temperatures = adv_data.virtual_temperatures,
        !.probe_id = IF ~in_grace_period(st.probe_id_set_at, t)
                     THEN adv_data.probe_id ELSE @,
        !.color = IF ~in_grace_period(st.color_set_at, t)
                  THEN adv_data.color ELSE @,
        !.battery_status = adv_data.battery_status,
        !.mode = adv_data.mode,
        !.overheating = adv_data.overheating_sensors,
        !.rssi = rssi,
        !.last_update = t]

update_from_status(st, status, t) ==
    [st EXCEPT
        !.temperatures = status.temperatures,
        !.virtual_temperatures = status.virtual_temperatures,
        !.probe_id = IF ~in_grace_period(st.probe_id_set_at, t)
                     THEN status.probe_id ELSE @,
        !.color = IF ~in_grace_period(st.color_set_at, t)
                  THEN status.color ELSE @,
        !.battery_status = status.battery_status,
        !.mode = status.mode,
        !.overheating = status.overheating,
        !.min_sequence = status.min_sequence_number,
        !.max_sequence = status.max_sequence_number,
        !.prediction = status.prediction,
        !.last_update = t]

\* Variant of merge_food_safe in which the payload replaces the stored
\* food-safe data, absent sections included.
merge_food_safe_replacing(fsd, config, fs_status) ==
    IF IsSome(config) THEN Some(FoodSafeData_with_config(Unwrap(config)))
    ELSE None

\* The match on (status.food_safe_config, status.food_safe_status) of the
\* status notification handler; fsd is state.food_safe_data.
merge_food_safe(fsd, config, fs_status) ==
    CASE IsSome(config) /\ IsSome(fs_status) ->
            IF IsSome(fsd)
            THEN Some(FoodSafeData_update_config(
                     FoodSafeData_update_from_status(Unwrap(fsd),
                                                     Unwrap(fs_status)),
                     Unwrap(config)))
            ELSE Some(FoodSafeData_from_config_and_status(Unwrap(config),
                                                          Unwrap(fs_status)))
      [] IsSome(config) /\ ~IsSome(fs_status) ->
            IF ~IsSome(fsd) THEN Some(FoodSafeData_with_config(Unwrap(config)))
            ELSE Some(FoodSafeData_update_config(Unwrap(fsd), Unwrap(config)))
      [] ~IsSome(config) /\ IsSome(fs_status) ->
            IF IsSome(fsd)
            THEN Some(FoodSafeData_update_from_status(Unwrap(fsd),
                                                      Unwrap(fs_status)))
            ELSE fsd
      [] OTHER -> fsd

\* The Ok(status) arm of the task spawned by start_status_notification_handler.
status_handler_apply(st, status, t) ==
    [st EXCEPT
        !.temperatures = status.temperatures,
        !.virtual_temperatures = status.virtual_temperatures,
        !.battery_status = status.battery_status,
        !.mode = status.mode,
        !.overheating = status.overheating,
        !.min_sequence = status.min_sequence_number,
        !.max_sequence = status.max_sequence_number,
        !.prediction = status.prediction,
        !.thermometer_preferences = status.thermometer_preferences,
        !.alarm_config = status.alarm_config,
        !.food_safe_data = merge_food_safe(@, status.food_safe_config,
                                           status.food_safe_status),
        !.last_update = t]

(***************************************************************************)
(* Inputs.  Payloads are built byte by byte and decoded by the parsers     *)
(* above.  Every advertisement carries serial number 1, the serial of the  *)
(* modelled probe, unless said otherwise.                                  *)
(***************************************************************************)
ModeIdByte(mode, color, id_raw) == mode + 4 * color + 32 * id_raw

AdvBytes(len, product, serial, mode_id_byte, status_byte) ==
    [i \in 1..len |->
        CASE i = 1 -> product
          [] i = 2 -> serial
          [] i = 6 -> 144            \* sensor T1 raw 400: 0.0 degrees
          [] i = 7 -> 1
          [] i = 19 -> mode_id_byte
          [] i = 20 -> status_byte
          [] OTHER -> 0]

\* A status payload of len bytes: sequence range 1..max_seq, prediction
\* state byte pred, food-safe state fs, preferences byte prefs and the first
\* byte of the core high alarm, alarm.
StatusBytes(len, max_seq, mode_id_byte, pred, fs, prefs, alarm) ==
    [i \in 1..len |->
        CASE i = 1 -> 1
          [] i = 5 -> max_seq
          [] i = 22 -> mode_id_byte
          [] i = 24 -> pred
          [] i = 25 -> 118             \* set point 63.0: raw 630 = 0x276
          [] i = 26 -> 2
          [] i = 31 -> 1               \* food-safe mode Integrated
          [] i = 41 -> fs
          [] i = 50 -> prefs
          [] i = 67 -> alarm           \* core high alarm, low byte
          [] OTHER -> 0]

AdvGreyId2 == AdvBytes(22, 1, 1, ModeIdByte(0, 1, 1), 0)
AdvRedId3 == AdvBytes(20, 1, 1, ModeIdByte(0, 2, 2), 0)
AdvTooShort == AdvBytes(19, 1, 1, ModeIdByte(0, 3, 3), 0)
AdvDisplay == AdvBytes(22, 4, 1, ModeIdByte(0, 3, 3), 0)
AdvOtherSerial == AdvBytes(22, 1, 2, ModeIdByte(0, 3, 3), 0)

StatusMin == StatusBytes(30, 5, ModeIdByte(0, 3, 3), 3, 0, 0, 0)
StatusWithConfig == StatusBytes(40, 6, ModeIdByte(0, 3, 3), 3, 0, 0, 0)
StatusWithPrefs == StatusBytes(50, 7, ModeIdByte(0, 4, 6), 4, 1, 1, 0)
StatusFull == StatusBytes(94, 8, ModeIdByte(0, 4, 6), 4, 1, 1, 1)
StatusTooShort == StatusBytes(29, 9, ModeIdByte(0, 4, 6), 3, 0, 0, 0)

Notification(uuid, data) == [characteristic_uuid |-> uuid, data |-> data]

AdvInputs == {AdvGreyId2, AdvRedId3, AdvTooShort, AdvDisplay, AdvOtherSerial}
RssiInput == Some(-60)
StatusInputs == {Notification("PROBE_STATUS", StatusMin),
                 Notification("PROBE_STATUS", StatusTooShort),
                 Notification("UART_TX", StatusMin)}
SectionInputs == {Notification("PROBE_STATUS", StatusMin),
                  Notification("PROBE_STATUS", StatusWithConfig),
                  Notification("PROBE_STATUS", StatusWithPrefs),
                  Notification("PROBE_STATUS", StatusFull),
                  Notification("PROBE_STATUS", StatusTooShort),
                  Notification("UART_TX", StatusFull)}
IdInputs == {5}
ColorInputs == {"Blue"}
WriteOutcomes == {"Ok", "Bluetooth"}
LocalAlarmConfig == set_core_high_alarm(AlarmConfig_new, 630, TRUE)

(***************************************************************************)
(* The probe: advertising updates, status notifications and commands.      *)
(***************************************************************************)
Tick ==
    /\ now < MaxTime
    /\ now' = now + 1
    /\ sent' = {}
    /\ UNCHANGED <<state, is_stale, result, connVars, characteristics,
                   callVars, codecVars, managerVars, logVars, taskVars>>

\* More than the stale timeout passes at once.
ElapseStale ==
    /\ now <= MaxElapsed
    /\ now' = now + DEFAULT_STALE_TIMEOUT + 1
    /\ sent' = {}
    /\ UNCHANGED <<state, is_stale, result, connVars, characteristics,
                   callVars, codecVars, managerVars, logVars, taskVars>>

\* Exactly the stale timeout passes at once.
ElapseTimeout ==
    /\ now <= MaxElapsed
    /\ now' = now + DEFAULT_STALE_TIMEOUT
    /\ sent' = {}
    /\ UNCHANGED <<state, is_stale, result, connVars, characteristics,
                   callVars, codecVars, managerVars, logVars, taskVars>>

\* BleScanner::process_peripheral followed by
\* DeviceManager::handle_discovery_event for the probe already in the map.
DiscoveryEvent(data, rssi) ==
    \E advertising_data \in {AdvertisingData_parse(data)} :
        /\ IF /\ IsSome(advertising_data)
              /\ is_predictive_probe(Unwrap(advertising_data).product_type)
              /\ Unwrap(advertising_data).serial_number = state.serial_number
           THEN /\ state' = update_from_advertising(
                                state, Unwrap(advertising_data), rssi, now)
                /\ is_stale' = FALSE
                /\ sent' = {"temperature", "discovered"}
           ELSE /\ UNCHANGED <<state, is_stale>>
                /\ sent' = {}
        /\ UNCHANGED <<now, result, connVars, characteristics, callVars, codecVars, managerVars, logVars,
                       taskVars>>

\* Variant of the Err arm that stamps last_update.
status_handler_error_stamping(st, t) == [st EXCEPT !.last_update = t]

\* The Err(e) arm of the handler's match on ProbeStatus::parse: a debug
\* line and nothing else.
status_handler_error(st, t) == st

\* One iteration of the status notification handler's loop on the event ev:
\* the body of `while let Ok(event) = rx.recv().await`.  The loop goes on
\* whatever the event was.
HandleNotification(ev) ==
    \E parsed \in {ProbeStatus_parse(ev.data)} :
        /\ IF ev.characteristic_uuid # "PROBE_STATUS"
           THEN /\ UNCHANGED <<state, is_stale>>
                /\ sent' = {}
           ELSE IF IsSome(parsed)
           THEN /\ state' = status_handler_apply(state, Unwrap(parsed), now)
                /\ is_stale' = FALSE
                /\ sent' = IF IsSome(Unwrap(parsed).prediction)
                           THEN {"temperature", "prediction"}
                           ELSE {"temperature"}
           ELSE /\ state' = status_handler_error(state, now)
                /\ UNCHANGED is_stale
                /\ sent' = {"debug: Failed to parse status notification"}
        /\ handler_task' = "running"

\* A notification is delivered by the peripheral, forwarded by the listener
\* and handled by the status handler, nothing else being queued.
StatusNotification(ev) ==
    /\ is_listening
    /\ handler_task = "running"
    /\ HandleNotification(ev)
    /\ UNCHANGED <<now, result, connVars, characteristics, callVars, codecVars, managerVars, logVars,
                   is_listening, queueVars>>

\* Probe::send_uart_message; w is the outcome of the transport write.
send_uart_message(w) == IF ~characteristics THEN "NotConnected" ELSE w

\* Variant of the guard: the connection state is not looked at.
command_result_unguarded(w) == send_uart_message(w)

\* The is_connected() guard of a command followed by send_uart_message.
command_result(w) ==
    IF conn_state # "Connected" THEN "NotConnected" ELSE send_uart_message(w)

\* The write reaches the transport: handler.write(&UART_RX_UUID, ..) is called.
command_writes ==
    IF conn_state # "Connected" THEN FALSE ELSE characteristics

Command(w, new_state) ==
    /\ result' = command_result(w)
    /\ state' = IF result' = "Ok" THEN new_state ELSE state
    /\ sent' = IF command_writes THEN {"uart_write"} ELSE {}
    /\ UNCHANGED <<now, is_stale, connVars, characteristics, callVars, codecVars, managerVars, logVars,
                   taskVars>>

\* Variants of the local updates: no anchor, no update.
set_id_apply_no_anchor(st, id, t) == [st EXCEPT !.probe_id = id]
set_alarms_apply_dropped(st, config) == st

set_id_apply(st, id, t) ==
    [st EXCEPT !.probe_id = id, !.probe_id_set_at = Some(t)]

set_color_apply(st, color, t) ==
    [st EXCEPT !.color = color, !.color_set_at = Some(t)]

set_alarms_apply(st, config) == [st EXCEPT !.alarm_config = Some(config)]

set_power_mode_apply(st, mode) ==
    [st EXCEPT !.thermometer_preferences =
                   Some(ThermometerPreferences_with_power_mode(mode))]

configure_food_safe_apply(st, config) ==
    [st EXCEPT !.food_safe_data = Some(FoodSafeData_with_config(config))]

reset_food_safe_apply(st) == [st EXCEPT !.food_safe_data = None]

set_id(id, w) == Command(w, set_id_apply(state, id, now))
set_color(color, w) == Command(w, set_color_apply(state, color, now))
set_alarms(config, w) == Command(w, set_alarms_apply(state, config))
set_power_mode(mode, w) == Command(w, set_power_mode_apply(state, mode))
configure_food_safe_with_config(config, w) ==
    Command(w, configure_food_safe_apply(state, config))
reset_food_safe(w) == Command(w, reset_food_safe_apply(state))

\* The commands that send a request and keep no local copy of it.
cancel_prediction(w) == Command(w, state)
reset_thermometer(w) == Command(w, state)
silence_alarms(w) == Command(w, state)
read_session_info(w) == Command(w, state)

\* set_prediction: the set point is looked at after the connection guard;
\* in_range is (0.0..=300.0).contains(&set_point_celsius).
set_prediction(in_range, w) ==
    /\ result' = IF conn_state # "Connected" THEN "NotConnected"
                 ELSE IF ~in_range THEN "InvalidParameter"
                 ELSE send_uart_message(w)
    /\ sent' = IF command_writes /\ in_range THEN {"uart_write"} ELSE {}
    /\ UNCHANGED <<now, state, is_stale, connVars, characteristics, callVars, codecVars, managerVars, logVars,
                   taskVars>>

\* Variant of the comparison: stale from the timeout on.
stale_after_inclusive(elapsed, timeout) == elapsed >= timeout

\* elapsed > self.stale_timeout
stale_after(elapsed, timeout) == elapsed > timeout

\* Probe::is_stale.
Probe_is_stale ==
    /\ is_stale' = stale_after(now - state.last_update, DEFAULT_STALE_TIMEOUT)
    /\ result' = IF is_stale' THEN "true" ELSE "false"
    /\ sent' = {}
    /\ UNCHANGED <<now, state, connVars, characteristics, callVars, codecVars, managerVars, logVars, taskVars>>

\* Probe::connect as one step by a single caller: outcome is what the
\* transport lets it reach.
Probe_connect(outcome) ==
    /\ \/ /\ outcome = "ConnectionFailed"
          /\ conn_state = "Disconnected"
          /\ UNCHANGED <<conn_state, characteristics, is_listening,
                         handler_task>>
       \/ /\ outcome = "Bluetooth"       \* discovery or subscribe failed
          /\ conn_state' = "Connected"
          /\ UNCHANGED <<characteristics, is_listening, handler_task>>
       \/ /\ outcome = "Ok"
          /\ conn_state' = "Connected"
          /\ is_listening' = TRUE
          /\ handler_task' = "running"
          /\ characteristics' = TRUE
    /\ maintain_connection' = IF conn_state = "Connected"
                              THEN maintain_connection ELSE TRUE
    /\ result' = outcome
    /\ sent' = {}
    /\ UNCHANGED <<now, state, is_stale, callVars, codecVars, managerVars, logVars, queueVars>>

\* Variant of Probe::disconnect that starts the probe state afresh.
Probe_disconnect_clearing(outcome) ==
    /\ maintain_connection' = FALSE
    /\ conn_state' = "Disconnected"
    /\ is_listening' = IF characteristics THEN FALSE ELSE is_listening
    /\ characteristics' = IF outcome = "Ok" THEN FALSE ELSE characteristics
    /\ handler_task' = IF outcome = "Ok" /\ handler_task = "running"
                       THEN "done" ELSE handler_task
    /\ outcome = "Bluetooth" => conn_state = "Connected"
    /\ state' = ProbeState_new(state.serial_number, state.last_update)
    /\ result' = outcome
    /\ sent' = {}
    /\ UNCHANGED <<now, is_stale, callVars, codecVars, managerVars, logVars, queueVars>>

\* Probe::disconnect as one step by a single caller, no notification being
\* queued: the listener is stopped, and the handler task ends once the
\* CharacteristicHandler, and with it the channel, is dropped.
Probe_disconnect(outcome) ==
    /\ maintain_connection' = FALSE
    /\ conn_state' = "Disconnected"
    /\ is_listening' = IF characteristics THEN FALSE ELSE is_listening
    /\ \/ /\ outcome = "Ok"
          /\ characteristics' = FALSE
          /\ handler_task' = IF handler_task = "running" THEN "done"
                             ELSE handler_task
       \/ /\ outcome = "Bluetooth"
          /\ conn_state = "Connected"
          /\ UNCHANGED <<characteristics, handler_task>>
    /\ result' = outcome
    /\ sent' = {}
    /\ UNCHANGED <<now, state, is_stale, callVars, codecVars, managerVars, logVars, queueVars>>

Callers == {"c1", "c2"}

InitCalls ==
    /\ pc = [c \in Callers |-> "idle"]
    /\ current_state = [c \in Callers |-> "Disconnected"]
    /\ maintain = [c \in Callers |-> FALSE]
    /\ attempts = [c \in Callers |-> 0]
    /\ ret = [c \in Callers |-> "None"]
    /\ transport_calls = [c \in Callers |-> 0]

InitTasks ==
    /\ is_listening = FALSE
    /\ listener = "none"
    /\ handler_task = "none"
    /\ stream = <<>>
    /\ rx = <<>>
    /\ session = "idle"

InitProbe ==
    /\ now = 0
    /\ state = ProbeState_new(1, 0)
    /\ is_stale = FALSE
    /\ sent = {}
    /\ result = "None"

\* No codec function is being exercised.
InitCodecIdle ==
    /\ input = [kind |-> "none"]
    /\ output = [op |-> "none"]

\* DeviceManager::new: no probe known, nothing running, no call made.
InitManagerIdle ==
    /\ probes = <<>>
    /\ is_running = FALSE
    /\ is_scanning = FALSE
    /\ background = "none"
    /\ scan_task = "none"
    /\ events = <<>>
    /\ manager_call = "idle"
    /\ manager_ret = [op |-> "none", result |-> "None"]

\* TemperatureLog::new: no data point.
InitLogEmpty == data_points = <<>>

\* No task has been spawned and no handle is stored.
InitNoTasks ==
    /\ scan_tasks = <<>>
    /\ background_tasks = <<>>
    /\ scan_handle = None
    /\ background_handle = None
    /\ joined = [c \in Callers |-> None]

\* No lock is held and no thread waits for one.
InitNoLocks ==
    /\ guards = {}
    /\ blocked = {}
    /\ workers = 1

InitSession ==
    /\ InitManagerIdle
    /\ InitLogEmpty
    /\ InitNoTasks
    /\ InitNoLocks
    /\ InitProbe
    /\ conn_state = "Disconnected"
    /\ maintain_connection = FALSE
    /\ characteristics = FALSE
    /\ InitCalls
    /\ InitTasks

Init ==
    /\ InitSession
    /\ InitCodecIdle

Next ==
    \/ Tick
    \/ \E data \in AdvInputs : DiscoveryEvent(data, RssiInput)
    \/ \E ev \in StatusInputs : StatusNotification(ev)
    \/ \E id \in IdInputs, w \in WriteOutcomes : set_id(id, w)
    \/ \E color \in ColorInputs, w \in WriteOutcomes : set_color(color, w)
    \/ \E outcome \in {"Ok", "Bluetooth", "ConnectionFailed"} :
          Probe_connect(outcome)
    \/ \E outcome \in {"Ok", "Bluetooth"} : Probe_disconnect(outcome)

Spec == Init /\ [][Next]_vars

(***************************************************************************)
(* The probe under status payloads with and without the optional sections, *)
(* the commands that set the same fields locally, and the stale check.     *)
(***************************************************************************)
NextStatus ==
    \/ ElapseStale
    \/ Probe_is_stale
    \/ \E data \in {AdvGreyId2, AdvTooShort, AdvDisplay} :
          DiscoveryEvent(data, RssiInput)
    \/ \E ev \in SectionInputs : StatusNotification(ev)
    \/ \E w \in WriteOutcomes : set_alarms(LocalAlarmConfig, w)
    \/ \E w \in WriteOutcomes : set_power_mode("AlwaysOn", w)
    \/ \E w \in WriteOutcomes :
          configure_food_safe_with_config(FoodSafeConfig_default, w)
    \/ \E w \in WriteOutcomes : reset_food_safe(w)
    \/ \E outcome \in {"Ok", "Bluetooth", "ConnectionFailed"} :
          Probe_connect(outcome)
    \/ \E outcome \in {"Ok", "Bluetooth"} : Probe_disconnect(outcome)

SpecStatus == Init /\ [][NextStatus]_vars

(***************************************************************************)
(* ConnectionManager::connect and ::disconnect, statement by statement,    *)
(* called by the callers of Callers, which run on the threads of the       *)
(* runtime.  A step ends where the call releases a lock or awaits.         *)
(***************************************************************************)
is_connected(s) == s = "Connected"
is_transitioning(s) == s \in {"Connecting", "Disconnecting"}

\* Variant: one attempt more than max_reconnect_attempts when maintaining.
max_attempts_one_more(m) == IF m THEN max_reconnect_attempts + 1 ELSE 1

max_attempts(m) == IF m THEN max_reconnect_attempts ELSE 1

\* set_state: the event sent when the state changes.
ConnectionEvent(old_state, new_state) ==
    IF old_state # new_state THEN {"connection"} ELSE {}

AlreadyInProgress == "ConnectionFailed: Connection already in progress"
FailedAfterAttempts == "ConnectionFailed: Failed after attempts"

connUnchanged ==
    <<now, state, is_stale, result, characteristics, taskVars, codecVars, managerVars, logVars>>

\* connect(): read the state and return early, or go on.
connect_begin(c, m) ==
    /\ pc[c] = "idle"
    /\ current_state' = [current_state EXCEPT ![c] = conn_state]
    /\ maintain' = [maintain EXCEPT ![c] = m]
    /\ attempts' = [attempts EXCEPT ![c] = 0]
    /\ transport_calls' = [transport_calls EXCEPT ![c] = 0]
    /\ IF is_connected(conn_state)
       THEN /\ ret' = [ret EXCEPT ![c] = "Ok"]
            /\ pc' = [pc EXCEPT ![c] = "done"]
       ELSE IF is_transitioning(conn_state)
       THEN /\ ret' = [ret EXCEPT ![c] = AlreadyInProgress]
            /\ pc' = [pc EXCEPT ![c] = "done"]
       ELSE /\ ret' = [ret EXCEPT ![c] = "None"]
            /\ pc' = [pc EXCEPT ![c] = "set_connecting"]
    /\ sent' = {}
    /\ UNCHANGED <<connVars, connUnchanged>>

\* *maintain_connection.write() = maintain; set_state(Connecting).
connect_set_connecting(c) ==
    /\ pc[c] = "set_connecting"
    /\ maintain_connection' = maintain[c]
    /\ conn_state' = "Connecting"
    /\ sent' = ConnectionEvent(conn_state, "Connecting")
    /\ pc' = [pc EXCEPT ![c] = "ble_check"]
    /\ UNCHANGED <<current_state, maintain, attempts, ret, transport_calls,
                   connUnchanged>>

\* peripheral.is_connected().await.unwrap_or(false)
connect_ble_check(c, connected) ==
    /\ pc[c] = "ble_check"
    /\ IF connected
       THEN /\ conn_state' = "Connected"
            /\ sent' = ConnectionEvent(conn_state, "Connected")
            /\ ret' = [ret EXCEPT ![c] = "Ok"]
            /\ pc' = [pc EXCEPT ![c] = "done"]
       ELSE /\ pc' = [pc EXCEPT ![c] = "loop"]
            /\ sent' = {}
            /\ UNCHANGED <<conn_state, ret>>
    /\ UNCHANGED <<maintain_connection, current_state, maintain, attempts,
                   transport_calls, connUnchanged>>

\* One iteration of `while attempts < max_attempts`, and the code after the
\* loop when the iteration was the last.
connect_attempt(c, ok) ==
    /\ pc[c] = "loop"
    /\ attempts[c] < max_attempts(maintain[c])
    /\ attempts' = [attempts EXCEPT ![c] = @ + 1]
    /\ transport_calls' = [transport_calls EXCEPT ![c] = @ + 1]
    /\ IF ok
       THEN /\ conn_state' = "Connected"
            /\ sent' = ConnectionEvent(conn_state, "Connected")
            /\ ret' = [ret EXCEPT ![c] = "Ok"]
            /\ pc' = [pc EXCEPT ![c] = "done"]
       ELSE IF attempts'[c] < max_attempts(maintain[c])
       THEN /\ sent' = {}
            /\ UNCHANGED <<conn_state, ret, pc>>
       ELSE /\ conn_state' = "Disconnected"
            /\ sent' = ConnectionEvent(conn_state, "Disconnected")
            /\ ret' = [ret EXCEPT ![c] = FailedAfterAttempts]
            /\ pc' = [pc EXCEPT ![c] = "done"]
    /\ UNCHANGED <<maintain_connection, current_state, maintain,
                   connUnchanged>>

\* disconnect(): clear maintain_connection, read the state, return early or
\* go on.
disconnect_begin(c) ==
    /\ pc[c] = "idle"
    /\ maintain_connection' = FALSE
    /\ current_state' = [current_state EXCEPT ![c] = conn_state]
    /\ attempts' = [attempts EXCEPT ![c] = 0]
    /\ transport_calls' = [transport_calls EXCEPT ![c] = 0]
    /\ IF conn_state \in {"Disconnected", "Disconnecting"}
       THEN /\ ret' = [ret EXCEPT ![c] = "Ok"]
            /\ pc' = [pc EXCEPT ![c] = "done"]
       ELSE /\ ret' = [ret EXCEPT ![c] = "None"]
            /\ pc' = [pc EXCEPT ![c] = "set_disconnecting"]
    /\ sent' = {}
    /\ UNCHANGED <<conn_state, maintain, connUnchanged>>

disconnect_set_disconnecting(c) ==
    /\ pc[c] = "set_disconnecting"
    /\ conn_state' = "Disconnecting"
    /\ sent' = ConnectionEvent(conn_state, "Disconnecting")
    /\ pc' = [pc EXCEPT ![c] = "disconnecting"]
    /\ UNCHANGED <<maintain_connection, current_state, maintain, attempts,
                   ret, transport_calls, connUnchanged>>

\* peripheral.disconnect().await and the match on its result.
disconnect_finish(c, ok) ==
    /\ pc[c] = "disconnecting"
    /\ conn_state' = "Disconnected"
    /\ sent' = ConnectionEvent(conn_state, "Disconnected")
    /\ ret' = [ret EXCEPT ![c] = IF ok THEN "Ok" ELSE "Bluetooth"]
    /\ pc' = [pc EXCEPT ![c] = "done"]
    /\ UNCHANGED <<maintain_connection, current_state, maintain, attempts,
                   transport_calls, connUnchanged>>

\* The call has returned; the caller may call again.
call_return(c) ==
    /\ pc[c] = "done"
    /\ pc' = [pc EXCEPT ![c] = "idle"]
    /\ sent' = {}
    /\ UNCHANGED <<connVars, current_state, maintain, attempts, ret,
                   transport_calls, connUnchanged>>

CallerStep(c) ==
    \/ \E m \in BOOLEAN : connect_begin(c, m)
    \/ connect_set_connecting(c)
    \/ \E connected \in BOOLEAN : connect_ble_check(c, connected)
    \/ \E ok \in BOOLEAN : connect_attempt(c, ok)
    \/ disconnect_begin(c)
    \/ disconnect_set_disconnecting(c)
    \/ \E ok \in BOOLEAN : disconnect_finish(c, ok)
    \/ call_return(c)

NextConn == \E c \in Callers : CallerStep(c)

SpecConn == Init /\ [][NextConn]_vars

\* Every call that has started goes on: the runtime runs a ready task and
\* the transport answers every request.
CallProgress(c) ==
    \/ connect_set_connecting(c)
    \/ \E connected \in BOOLEAN : connect_ble_check(c, connected)
    \/ \E ok \in BOOLEAN : connect_attempt(c, ok)
    \/ disconnect_set_disconnecting(c)
    \/ \E ok \in BOOLEAN : disconnect_finish(c, ok)

SpecConnFair == SpecConn /\ \A c \in Callers : WF_vars(CallProgress(c))

(***************************************************************************)
(* One session of a probe with its two background tasks: the notification  *)
(* listener spawned by CharacteristicHandler::start_notifications and the   *)
(* status handler spawned by Probe::start_status_notification_handler.      *)
(* stream holds what the peripheral has delivered and the listener has not  *)
(* read yet, rx what the listener has broadcast and the handler has not     *)
(* received yet.                                                            *)
(***************************************************************************)
SessionInputs == {Notification("PROBE_STATUS", StatusMin),
                  Notification("PROBE_STATUS", StatusWithConfig),
                  Notification("PROBE_STATUS", StatusTooShort)}

sessionUnchanged == <<now, callVars, codecVars, managerVars, logVars>>

\* Probe::connect by the one caller of the session.
Session_connect(outcome) ==
    /\ session = "idle"
    /\ IF outcome = "Ok"
       THEN /\ conn_state' = "Connected"
            /\ maintain_connection' = TRUE
            /\ is_listening' = TRUE
            /\ listener' = "check"
            /\ handler_task' = "running"
            /\ characteristics' = TRUE
            /\ session' = "connected"
       ELSE /\ conn_state' = "Disconnected"
            /\ maintain_connection' = TRUE
            /\ UNCHANGED <<is_listening, listener, handler_task,
                           characteristics, session>>
    /\ result' = outcome
    /\ sent' = {}
    /\ UNCHANGED <<state, is_stale, stream, rx, sessionUnchanged>>

\* The peripheral delivers a notification.
Notify(ev) ==
    /\ conn_state = "Connected"
    /\ listener # "none"
    /\ Len(stream) + Len(rx) < MaxStream
    /\ stream' = Append(stream, ev)
    /\ sent' = {}
    /\ UNCHANGED <<state, is_stale, result, connVars, characteristics,
                   is_listening, listener, handler_task, rx, session,
                   sessionUnchanged>>

\* The listener's `while *is_listening.read()`.
listener_check ==
    /\ listener = "check"
    /\ listener' = IF is_listening THEN "select" ELSE "done"
    /\ sent' = {}
    /\ UNCHANGED <<state, is_stale, result, connVars, characteristics,
                   is_listening, handler_task, stream, rx, session,
                   sessionUnchanged>>

\* The first arm of the listener's select!: a notification is broadcast.
listener_forward ==
    /\ listener = "select"
    /\ stream # <<>>
    /\ rx' = IF handler_task = "running" THEN Append(rx, Head(stream)) ELSE rx
    /\ stream' = Tail(stream)
    /\ listener' = "check"
    /\ sent' = {}
    /\ UNCHANGED <<state, is_stale, result, connVars, characteristics,
                   is_listening, handler_task, session, sessionUnchanged>>

\* The second arm: the 50 ms sleep is over.
listener_timeout ==
    /\ listener = "select"
    /\ listener' = IF ~is_listening THEN "done" ELSE "check"
    /\ sent' = {}
    /\ UNCHANGED <<state, is_stale, result, connVars, characteristics,
                   is_listening, handler_task, stream, rx, session,
                   sessionUnchanged>>

\* The handler task receives the next event and handles it.
handler_recv ==
    /\ handler_task = "running"
    /\ rx # <<>>
    /\ HandleNotification(Head(rx))
    /\ rx' = Tail(rx)
    /\ UNCHANGED <<result, connVars, characteristics, is_listening, listener,
                   stream, session, sessionUnchanged>>

\* rx.recv() returns Closed: the queue is empty and every sender is gone,
\* the CharacteristicHandler's and the listener's.
handler_closed ==
    /\ handler_task = "running"
    /\ rx = <<>>
    /\ ~characteristics
    /\ listener = "done"
    /\ handler_task' = "done"
    /\ sent' = {}
    /\ UNCHANGED <<state, is_stale, result, connVars, characteristics,
                   is_listening, listener, stream, rx, session,
                   sessionUnchanged>>

\* Probe::disconnect, up to the await in stop_notifications.
disconnect_stop_notifications ==
    /\ session = "connected"
    /\ is_listening' = FALSE
    /\ session' = "stopping"
    /\ sent' = {}
    /\ UNCHANGED <<state, is_stale, result, connVars, characteristics,
                   listener, handler_task, stream, rx, sessionUnchanged>>

\* The listener's JoinHandle completes; connection.disconnect() and, when
\* it succeeds, *characteristics.write() = None.  disconnect() returns.
disconnect_return(outcome) ==
    /\ session = "stopping"
    /\ listener = "done"
    /\ maintain_connection' = FALSE
    /\ conn_state' = "Disconnected"
    /\ characteristics' = IF outcome = "Ok" THEN FALSE ELSE characteristics
    /\ result' = outcome
    /\ session' = "disconnected"
    /\ sent' = {}
    /\ UNCHANGED <<state, is_stale, is_listening, listener, handler_task,
                   stream, rx, sessionUnchanged>>

NextSession ==
    \/ \E outcome \in {"Ok", "ConnectionFailed"} : Session_connect(outcome)
    \/ \E ev \in SessionInputs : Notify(ev)
    \/ listener_check
    \/ listener_forward
    \/ listener_timeout
    \/ handler_recv
    \/ handler_closed
    \/ disconnect_stop_notifications
    \/ \E outcome \in {"Ok", "Bluetooth"} : disconnect_return(outcome)

SpecSession == Init /\ [][NextSession]_vars

(***************************************************************************)
(* Properties of the probe state under advertising, status and commands.   *)
(***************************************************************************)
\* The inputs with what the decoders make of them.
ParsedAdvInputs ==
    {[data |-> data, adv |-> AdvertisingData_parse(data)] : data \in AdvInputs}
ParsedStatusInputs ==
    {[ev |-> ev, status |-> ProbeStatus_parse(ev.data)] :
        ev \in StatusInputs \cup SectionInputs}

\* This step is the discovery event of input p, and its advertisement is
\* applied to the probe.  (The conjuncts before DiscoveryEvent follow from
\* it; they are there to decide most steps without evaluating it.)
AdvApplied(p) ==
    /\ "discovered" \in sent'
    /\ IsSome(p.adv)
    /\ state'.rssi = RssiInput
    /\ DiscoveryEvent(p.data, RssiInput)

\* This step is the status handler decoding and applying the notification
\* of input p.  (Likewise for the conjuncts before StatusNotification.)
StatusApplied(p) ==
    /\ "temperature" \in sent'
    /\ "discovered" \notin sent'
    /\ IsSome(p.status)
    /\ p.ev.characteristic_uuid = "PROBE_STATUS"
    /\ state'.max_sequence = Unwrap(p.status).max_sequence_number
    /\ StatusNotification(p.ev)

\* C1: an advertising update applied less than 5 s after a successful
\* set_id leaves the stored probe id equal to the locally set value; one
\* applied 5 s or more after it (or with no local set at all) sets the id to
\* the advertised id.  The same rule holds for the colour, independently of
\* the id.
C1_AdvertisingGrace ==
    [][\A p \in ParsedAdvInputs : AdvApplied(p) =>
          /\ state'.probe_id =
                IF /\ IsSome(state.probe_id_set_at)
                   /\ now - Unwrap(state.probe_id_set_at) < 5
                THEN state.probe_id
                ELSE Unwrap(p.adv).probe_id
          /\ (IsSome(state.probe_id_set_at)
                 /\ now - Unwrap(state.probe_id_set_at) < 5)
                => state'.probe_id \in IdInputs
          /\ state'.color =
                IF /\ IsSome(state.color_set_at)
                   /\ now - Unwrap(state.color_set_at) < 5
                THEN state.color
                ELSE Unwrap(p.adv).color
          /\ (IsSome(state.color_set_at)
                 /\ now - Unwrap(state.color_set_at) < 5)
                => state'.color \in ColorInputs]_vars

\* An advertisement has just been applied while the local id is still held
\* (set less than 5 s ago) and the local colour, set 5 s ago or more, has
\* been replaced by the advertised one.
C1_Witness ==
    /\ "discovered" \in sent
    /\ IsSome(state.probe_id_set_at)
    /\ now - Unwrap(state.probe_id_set_at) < 5
    /\ state.probe_id \in IdInputs
    /\ IsSome(state.color_set_at)
    /\ now - Unwrap(state.color_set_at) >= 5
    /\ state.color \in {"Grey", "Red"}

\* C2: every decoded status notification applies the id/colour grace rule
\* of the advertising update (the stored id and colour become the payload's
\* unless set locally less than 5 s ago) and replaces the sequence bounds
\* and the prediction by the payload's.
C2_StatusGrace ==
    [][\A p \in ParsedStatusInputs : StatusApplied(p) =>
          /\ state'.probe_id =
                IF /\ IsSome(state.probe_id_set_at)
                   /\ now - Unwrap(state.probe_id_set_at) < 5
                THEN state.probe_id
                ELSE Unwrap(p.status).probe_id
          /\ state'.color =
                IF /\ IsSome(state.color_set_at)
                   /\ now - Unwrap(state.color_set_at) < 5
                THEN state.color
                ELSE Unwrap(p.status).color
          /\ state'.min_sequence = Unwrap(p.status).min_sequence_number
          /\ state'.max_sequence = Unwrap(p.status).max_sequence_number
          /\ state'.prediction = Unwrap(p.status).prediction]_vars

\* What the handler does instead: a decoded status notification replaces
\* the sequence bounds and the prediction, and leaves id and colour as they
\* were, grace period or not.
C2_StatusKeepsIdAndColor ==
    [][\A p \in ParsedStatusInputs : StatusApplied(p) =>
          /\ state'.probe_id = state.probe_id
          /\ state'.color = state.color
          /\ state'.min_sequence = Unwrap(p.status).min_sequence_number
          /\ state'.max_sequence = Unwrap(p.status).max_sequence_number
          /\ state'.prediction = Unwrap(p.status).prediction]_vars

\* A status notification carrying id 4 has just been applied to a probe
\* whose id was never set locally, and the stored id is not 4.
C2_Witness ==
    /\ sent = {"temperature", "prediction"}
    /\ state.max_sequence = 5
    /\ ~IsSome(state.probe_id_set_at)
    /\ state.probe_id # ProbeId_from_raw(3)

\* C3: a decoded status notification carrying neither the food-safety
\* configuration nor the food-safety status leaves food_safe_data as it
\* was.
C3_FoodSafeKept ==
    [][\A p \in ParsedStatusInputs :
          (/\ StatusApplied(p)
           /\ ~IsSome(Unwrap(p.status).food_safe_config)
           /\ ~IsSome(Unwrap(p.status).food_safe_status))
             => state'.food_safe_data = state.food_safe_data]_vars

\* The 30-byte status (sequence range 1..5) has just been applied and the
\* food-safe data configured before it is still there.
C3_Witness ==
    /\ "temperature" \in sent
    /\ state.max_sequence = 5
    /\ Len(StatusMin) = 30
    /\ IsSome(state.food_safe_data)

RejectedAdvInputs ==
    {p \in ParsedAdvInputs :
        \/ ~IsSome(p.adv)
        \/ ~is_predictive_probe(Unwrap(p.adv).product_type)}
FailingStatusInputs ==
    {p \in ParsedStatusInputs :
        p.ev.characteristic_uuid = "PROBE_STATUS" /\ ~IsSome(p.status)}

\* C5: an advertisement or status notification that fails to decode (or is
\* rejected) changes no field of the probe state, last_update included,
\* nor the stale flag, emits no temperature or prediction event, and leaves
\* the handler running and the listener listening, so that the next valid
\* payload is applied.
C5_FailedDecodeSkipped ==
    [][/\ \A p \in RejectedAdvInputs :
             (/\ "discovered" \notin sent'
              /\ now' = now /\ result' = result
              /\ DiscoveryEvent(p.data, RssiInput))
                => /\ state' = state
                   /\ is_stale' = is_stale
                   /\ sent' \cap {"temperature", "prediction"} = {}
       /\ \A p \in FailingStatusInputs :
             ("temperature" \notin sent' /\ StatusNotification(p.ev))
                => /\ state' = state
                   /\ is_stale' = is_stale
                   /\ sent' \cap {"temperature", "prediction"} = {}
                   /\ handler_task' = "running"
                   /\ is_listening']_vars

\* The handler has just logged a failed decode; the probe is still marked
\* stale, its last update is more than the stale timeout old, and the
\* handler and the listener are still there.
C5_Witness ==
    /\ sent = {"debug: Failed to parse status notification"}
    /\ is_stale
    /\ now - state.last_update > DEFAULT_STALE_TIMEOUT
    /\ handler_task = "running"
    /\ is_listening

\* C7: a successful set_alarms(c) makes alarm_config Some(c) at once, a
\* failed one leaves it as it was, and the next decoded status payload that
\* carries an alarm table replaces it by the payload's.
C7_AlarmsOptimistic ==
    [][/\ \A w \in WriteOutcomes : set_alarms(LocalAlarmConfig, w) =>
             /\ result' = "Ok" <=>
                   (conn_state = "Connected" /\ characteristics /\ w = "Ok")
             /\ state'.alarm_config =
                   IF result' = "Ok" THEN Some(LocalAlarmConfig)
                   ELSE state.alarm_config
       /\ \A p \in ParsedStatusInputs :
             (StatusApplied(p) /\ IsSome(Unwrap(p.status).alarm_config))
                => state'.alarm_config = Unwrap(p.status).alarm_config]_vars

\* set_alarms has just succeeded on a probe that is connected, and the
\* stored table is the one passed in, with the core high alarm at 63.0.
C7_Witness ==
    /\ result = "Ok"
    /\ sent = {}
    /\ conn_state = "Connected"
    /\ state.alarm_config = Some(LocalAlarmConfig)
    /\ LocalAlarmConfig.high_alarms[9].temperature = 630

\* C6: a successful set_id(v) sets the stored id to v and the id anchor to
\* the current time and changes nothing else (no other field of the state,
\* not the stale flag, not the connection); a set_id whose transport write
\* fails, or which is refused, changes nothing.  Symmetrically for
\* set_color with the colour and the colour anchor.
C6_LocalSetAnchors ==
    [][/\ \A id \in IdInputs, w \in WriteOutcomes : set_id(id, w) =>
             /\ result' = "Ok" <=>
                   (conn_state = "Connected" /\ characteristics /\ w = "Ok")
             /\ state' = IF result' = "Ok"
                         THEN [state EXCEPT !.probe_id = id,
                                            !.probe_id_set_at = Some(now)]
                         ELSE state
             /\ UNCHANGED <<is_stale, conn_state, characteristics>>
       /\ \A color \in ColorInputs, w \in WriteOutcomes :
             set_color(color, w) =>
             /\ result' = "Ok" <=>
                   (conn_state = "Connected" /\ characteristics /\ w = "Ok")
             /\ state' = IF result' = "Ok"
                         THEN [state EXCEPT !.color = color,
                                            !.color_set_at = Some(now)]
                         ELSE state
             /\ UNCHANGED <<is_stale, conn_state, characteristics>>]_vars

\* set_id(5) has just succeeded at a time later than 0 on a probe whose
\* colour came from an advertisement: the id is 5, its anchor is now, and
\* the colour has no anchor.
C6_Witness ==
    /\ result = "Ok"
    /\ sent = {}
    /\ conn_state = "Connected"
    /\ now > 0
    /\ state.probe_id = 5
    /\ state.probe_id_set_at = Some(now)
    /\ state.color = "Grey"
    /\ ~IsSome(state.color_set_at)

(***************************************************************************)
(* Properties of ConnectionManager::connect.                               *)
(***************************************************************************)
\* C8: of two connect() calls in progress at the same time at most one
\* performs transport attempts; the other one returns Ok or
\* ConnectionFailed("Connection already in progress") without any.
C8_SingleAttempter ==
    \A c \in Callers : \A d \in Callers \ {c} :
        (pc[c] = "loop" /\ transport_calls[c] > 0)
            => /\ ~(pc[d] = "loop" /\ transport_calls[d] > 0)
               /\ pc[d] \notin {"set_connecting", "ble_check"}

\* Both callers are inside the retry loop of connect() and each has called
\* peripheral.connect() at least once.
C8_Witness ==
    \A c \in Callers : pc[c] = "loop" /\ transport_calls[c] > 0

\* This step is one of connect() by caller c and the call returns with it.
ConnectReturns(c) ==
    /\ pc'[c] = "done"
    /\ \/ \E m \in BOOLEAN : connect_begin(c, m)
       \/ connect_ble_check(c, TRUE)
       \/ \E ok \in BOOLEAN : connect_attempt(c, ok)

\* What connect() leaves and returns: Ok with the state Connected, or one of
\* the two ConnectionFailed errors, the one after the retries with the state
\* Disconnected and every allowed attempt made.
C10_EndState(c) ==
    ConnectReturns(c) =>
        /\ ret'[c] \in {"Ok", AlreadyInProgress, FailedAfterAttempts}
        /\ ret'[c] = "Ok" => conn_state' = "Connected"
        /\ ret'[c] = FailedAfterAttempts =>
              /\ conn_state' = "Disconnected"
              /\ transport_calls'[c] = IF maintain'[c] THEN 3 ELSE 1
        /\ ret'[c] = AlreadyInProgress => transport_calls'[c] = 0

\* Every connect() call returns.
C10_Terminates ==
    \A c \in Callers :
        (pc[c] \in {"set_connecting", "ble_check", "loop"}) ~> (pc[c] = "done")

\* C10 as stated: connect(maintain = true) makes at most 3 transport
\* attempts and connect(maintain = false) exactly 1; the call always
\* returns; when every attempt fails it returns ConnectionFailed with the
\* state Disconnected, and when it succeeds the state is Connected.
C10_ExactlyOneAttempt ==
    /\ [][\A c \in Callers :
             /\ C10_EndState(c)
             /\ ConnectReturns(c) =>
                   IF maintain'[c] THEN transport_calls'[c] <= 3
                   ELSE transport_calls'[c] = 1]_vars
    /\ C10_Terminates

\* C10, amended: connect(maintain = true) makes at most 3 transport attempts
\* and connect(maintain = false) at most 1, and exactly 1 whenever the call
\* gets as far as the retry loop (it makes none when it returns early: state
\* already Connected, a transition in progress, or the peripheral already
\* connected at BLE level); the rest as stated.
C10_BoundedAttempts ==
    /\ [][\A c \in Callers :
             /\ C10_EndState(c)
             /\ transport_calls'[c] <= IF maintain'[c] THEN 3 ELSE 1
             /\ (ConnectReturns(c) /\ pc[c] = "loop" /\ ~maintain'[c])
                   => transport_calls'[c] = 1
             /\ (ConnectReturns(c) /\ pc[c] # "loop")
                   => transport_calls'[c] = 0]_vars
    /\ C10_Terminates

\* A connect(maintain = true) call has returned ConnectionFailed after three
\* failed attempts and left the state Disconnected.
C10_Witness ==
    \E c \in Callers :
        /\ pc[c] = "done"
        /\ maintain[c]
        /\ ret[c] = FailedAfterAttempts
        /\ transport_calls[c] = 3
        /\ conn_state = "Disconnected"

(***************************************************************************)
(* Properties of the session's background tasks.                           *)
(***************************************************************************)
\* C9: once Probe::disconnect() has returned, no background task of the
\* probe writes the probe state or the stale flag, or sends an update,
\* whatever notifications were queued.
C9_NoWriteAfterDisconnect ==
    [][(session = "disconnected" /\ session' = "disconnected")
          => /\ state' = state
             /\ is_stale' = is_stale
             /\ "temperature" \notin sent']_vars

\* The part that holds: when disconnect() returns the listener task has
\* ended.
C9_ListenerStopped == session = "disconnected" => listener = "done"

\* disconnect() has returned, the handler task is still running and a
\* notification is still queued in its receiver.
C9_Witness ==
    /\ session = "disconnected"
    /\ handler_task = "running"
    /\ rx # <<>>

(***************************************************************************)
(* The commands of a probe while its connection is opened and closed: the   *)
(* caller c1 runs ConnectionManager::connect and ::disconnect step by step, *)
(* so that commands are issued in every connection state.                   *)
(***************************************************************************)
CommandStep ==
    \/ \E id \in IdInputs, w \in WriteOutcomes : set_id(id, w)
    \/ \E color \in ColorInputs, w \in WriteOutcomes : set_color(color, w)
    \/ \E in_range \in BOOLEAN, w \in WriteOutcomes :
          set_prediction(in_range, w)
    \/ \E w \in WriteOutcomes : cancel_prediction(w)
    \/ \E w \in WriteOutcomes :
          configure_food_safe_with_config(FoodSafeConfig_default, w)
    \/ \E w \in WriteOutcomes : reset_food_safe(w)
    \/ \E w \in WriteOutcomes : set_power_mode("AlwaysOn", w)
    \/ \E w \in WriteOutcomes : reset_thermometer(w)
    \/ \E w \in WriteOutcomes : set_alarms(LocalAlarmConfig, w)
    \/ \E w \in WriteOutcomes : silence_alarms(w)
    \/ \E w \in WriteOutcomes : read_session_info(w)

NextCommands ==
    \/ CommandStep
    \/ DiscoveryEvent(AdvGreyId2, RssiInput)
    \/ \E outcome \in {"Ok", "Bluetooth", "ConnectionFailed"} :
          Probe_connect(outcome)
    \/ \E outcome \in {"Ok", "Bluetooth"} : Probe_disconnect(outcome)
    \/ CallerStep("c1")

SpecCommands == Init /\ [][NextCommands]_vars

\* C11: a command issued while the connection state is not Connected
\* returns NotConnected, makes no transport write and leaves the probe state
\* as it was.
C11_NotConnected ==
    [][(conn_state # "Connected" /\ CommandStep)
          => /\ result' = "NotConnected"
             /\ "uart_write" \notin sent'
             /\ state' = state]_vars

\* A command was refused while the connection was being closed, the
\* characteristic handler still being there.
C11_Witness ==
    /\ conn_state = "Disconnecting"
    /\ characteristics
    /\ result = "NotConnected"
    /\ IsSome(state.rssi)

(***************************************************************************)
(* The stale check around its threshold: the clock moves by seconds and by  *)
(* the stale timeout, updates arrive from advertising and from the status   *)
(* handler, and is_stale() is called in between.                            *)
(***************************************************************************)
NextStale ==
    \/ Tick
    \/ ElapseTimeout
    \/ Probe_is_stale
    \/ \E data \in {AdvGreyId2, AdvTooShort, AdvDisplay} :
          DiscoveryEvent(data, RssiInput)
    \/ \E ev \in StatusInputs : StatusNotification(ev)
    \/ Probe_connect("Ok")
    \/ Probe_disconnect("Ok")

SpecStale == Init /\ [][NextStale]_vars

\* C12: is_stale() returns true exactly when more than 15 s have passed
\* since the last accepted advertising or status update, and changes
\* nothing but the stale flag; an accepted update sets last_update to the
\* current time and clears the flag; no other step moves last_update.
C12_StaleCheck ==
    [][/\ Probe_is_stale =>
             /\ (result' = "true") <=> (now - state.last_update >= 16)
             /\ (result' = "false") <=> (now - state.last_update <= 15)
             /\ is_stale' = (result' = "true")
             /\ state' = state
             /\ UNCHANGED <<now, connVars, characteristics, callVars,
                            taskVars>>
       /\ \A p \in ParsedAdvInputs : AdvApplied(p) =>
             (state'.last_update = now /\ ~is_stale')
       /\ \A p \in ParsedStatusInputs : StatusApplied(p) =>
             (state'.last_update = now /\ ~is_stale')
       /\ (state'.last_update # state.last_update) =>
             \/ \E p \in ParsedAdvInputs : AdvApplied(p)
             \/ \E p \in ParsedStatusInputs : StatusApplied(p)]_vars

\* is_stale() has answered false exactly 15 s after an update that was
\* accepted after construction.
C12_Witness ==
    /\ result = "false"
    /\ ~is_stale
    /\ state.last_update > 0
    /\ now - state.last_update = 15

\* The data fields of the probe state.
ProbeData(st) ==
    <<st.temperatures, st.virtual_temperatures, st.prediction,
      st.food_safe_data, st.alarm_config, st.thermometer_preferences,
      st.probe_id, st.color, st.min_sequence, st.max_sequence>>

\* C13: a disconnect, a failed connect, the stale flag being raised and time
\* passing beyond the stale timeout leave every data field of the probe
\* state as it was.
C13_DataKept ==
    [][(\/ conn_state = "Connected" /\ conn_state' = "Disconnected"
        \/ \E outcome \in {"Ok", "Bluetooth"} : Probe_disconnect(outcome)
        \/ \E outcome \in {"Bluetooth", "ConnectionFailed"} :
              Probe_connect(outcome)
        \/ ~is_stale /\ is_stale'
        \/ now' - state.last_update > 15 /\ now' # now)
          => ProbeData(state') = ProbeData(state)]_vars

\* A disconnected probe flagged stale still holds the data of the last full
\* status payload.
C13_Witness ==
    /\ conn_state = "Disconnected"
    /\ ~characteristics
    /\ is_stale
    /\ now - state.last_update > 15
    /\ state.max_sequence = 8
    /\ IsSome(state.alarm_config)
    /\ IsSome(state.thermometer_preferences)
    /\ IsSome(state.food_safe_data)
    /\ IsSome(state.rssi)

(***************************************************************************)
(* The UART codec: CRC-16/CCITT-FALSE, message types and the request       *)
(* frame Sync(2) + CRC(2) + MsgType(1) + PayloadLen(1) + Payload.           *)
(* u16 values are kept modulo 65536, bytes modulo 256.                      *)
(***************************************************************************)
\* Bitwise operations on naturals.  (Functions: their arguments are values.)
BitXor[a \in Nat, b \in Nat] ==
    IF a = 0 THEN b
    ELSE IF b = 0 THEN a
    ELSE (((a % 2) + (b % 2)) % 2) + 2 * BitXor[a \div 2, b \div 2]

BitOr[a \in Nat, b \in Nat] ==
    IF a = 0 THEN b
    ELSE IF b = 0 THEN a
    ELSE (IF a % 2 = 1 \/ b % 2 = 1 THEN 1 ELSE 0)
            + 2 * BitOr[a \div 2, b \div 2]

CRC_POLYNOMIAL == 4129          \* 0x1021
CRC_INITIAL == 65535            \* 0xFFFF
UART_SYNC_BYTES == <<202, 254>> \* 0xCA 0xFE
HEADER_SIZE == 6

\* One round of the inner loop `for _ in 0..8`.
crc_round[crc \in Nat] ==
    IF crc >= 32768 THEN BitXor[(crc * 2) % 65536, CRC_POLYNOMIAL]
    ELSE (crc * 2) % 65536

\* The body of `for &byte in data`: crc ^= (byte as u16) << 8, then the
\* eight rounds.
crc_byte[crc \in Nat, byte \in Nat] ==
    crc_round[crc_round[crc_round[crc_round[crc_round[crc_round[crc_round[
        crc_round[BitXor[crc, byte * 256]]]]]]]]]

\* `for &byte in data`: span[lo, hi, crc] is crc after the bytes lo..hi
\* (1-based) have gone through the loop body in order; the range is halved
\* to keep the evaluation shallow.
calculate_crc(data) ==
    LET span[lo \in Nat, hi \in Nat, crc \in Nat] ==
            IF lo > hi THEN crc
            ELSE IF lo = hi THEN crc_byte[crc, data[lo]]
            ELSE span[((lo + hi) \div 2) + 1, hi,
                      span[lo, (lo + hi) \div 2, crc]]
    IN  span[1, Len(data), CRC_INITIAL]

\* u16::to_le_bytes / u16::from_le_bytes
to_le_bytes(v) == <<v % 256, v \div 256>>
from_le_bytes(lo, hi) == lo + 256 * hi

\* Variant of append_crc that puts the high byte first.
append_crc_big_endian(data) ==
    data \o <<calculate_crc(data) \div 256, calculate_crc(data) % 256>>

append_crc(data) == data \o to_le_bytes(calculate_crc(data))

verify_crc(data) ==
    IF Len(data) < 3 THEN FALSE
    ELSE calculate_crc(SubSeq(data, 1, Len(data) - 2))
            = from_le_bytes(data[Len(data) - 1], data[Len(data)])

\* UartMessageType::from_raw
UartMessageType_from_raw(value) ==
    CASE value = 1 -> "SetProbeId"
      [] value = 129 -> "SetProbeIdResponse"
      [] value = 2 -> "SetProbeColor"
      [] value = 130 -> "SetProbeColorResponse"
      [] value = 3 -> "ReadSessionInfo"
      [] value = 131 -> "ReadSessionInfoResponse"
      [] value = 4 -> "ReadLogs"
      [] value = 132 -> "ReadLogsResponse"
      [] value = 5 -> "SetPrediction"
      [] value = 133 -> "SetPredictionResponse"
      [] value = 6 -> "ReadOverTemperature"
      [] value = 134 -> "ReadOverTemperatureResponse"
      [] value = 7 -> "ConfigureFoodSafe"
      [] value = 135 -> "ConfigureFoodSafeResponse"
      [] value = 8 -> "ResetFoodSafe"
      [] value = 136 -> "ResetFoodSafeResponse"
      [] value = 9 -> "SetPowerMode"
      [] value = 137 -> "SetPowerModeResponse"
      [] value = 10 -> "ResetThermometer"
      [] value = 138 -> "ResetThermometerResponse"
      [] value = 11 -> "SetHighLowAlarms"
      [] value = 139 -> "SetHighLowAlarmsResponse"
      [] value = 12 -> "SilenceAlarms"
      [] value = 140 -> "SilenceAlarmsResponse"
      [] OTHER -> "Unknown"

\* UartMessageType::to_raw: the discriminant of the variant.
UartMessageType_to_raw(t) ==
    CASE t = "SetProbeId" -> 1
      [] t = "SetProbeIdResponse" -> 129
      [] t = "SetProbeColor" -> 2
      [] t = "SetProbeColorResponse" -> 130
      [] t = "ReadSessionInfo" -> 3
      [] t = "ReadSessionInfoResponse" -> 131
      [] t = "ReadLogs" -> 4
      [] t = "ReadLogsResponse" -> 132
      [] t = "SetPrediction" -> 5
      [] t = "SetPredictionResponse" -> 133
      [] t = "ReadOverTemperature" -> 6
      [] t = "ReadOverTemperatureResponse" -> 134
      [] t = "ConfigureFoodSafe" -> 7
      [] t = "ConfigureFoodSafeResponse" -> 135
      [] t = "ResetFoodSafe" -> 8
      [] t = "ResetFoodSafeResponse" -> 136
      [] t = "SetPowerMode" -> 9
      [] t = "SetPowerModeResponse" -> 137
      [] t = "ResetThermometer" -> 10
      [] t = "ResetThermometerResponse" -> 138
      [] t = "SetHighLowAlarms" -> 11
      [] t = "SetHighLowAlarmsResponse" -> 139
      [] t = "SilenceAlarms" -> 12
      [] t = "SilenceAlarmsResponse" -> 140
      [] t = "Unknown" -> 255

UartMessageTypes ==
    {"SetProbeId", "SetProbeColor", "ReadSessionInfo", "ReadLogs",
     "SetPrediction", "ReadOverTemperature", "ConfigureFoodSafe",
     "ResetFoodSafe", "SetPowerMode", "ResetThermometer", "SetHighLowAlarms",
     "SilenceAlarms", "SetProbeIdResponse", "SetProbeColorResponse",
     "ReadSessionInfoResponse", "ReadLogsResponse", "SetPredictionResponse",
     "ReadOverTemperatureResponse", "ConfigureFoodSafeResponse",
     "ResetFoodSafeResponse", "SetPowerModeResponse",
     "ResetThermometerResponse", "SetHighLowAlarmsResponse",
     "SilenceAlarmsResponse", "Unknown"}

\* (*self as u8) & 0x80 != 0
is_response(t) == (UartMessageType_to_raw(t) \div 128) % 2 = 1
is_request(t) == ~is_response(t)

\* Variant of response_type that answers the request type itself.
response_type_same(t) == IF is_response(t) THEN None ELSE Some(t)

response_type(t) ==
    IF is_response(t) THEN None
    ELSE Some(UartMessageType_from_raw(BitOr[UartMessageType_to_raw(t), 128]))

\* UartMessage::new; `payload.len() as u8` keeps the low eight bits.
UartMessage_new(message_type, payload) ==
    [message_type |-> message_type,
     payload_length |-> Len(payload) % 256,
     payload |-> payload]

\* Variant of the CRC input without the length byte.
to_bytes_crc_data_no_length(m) ==
    <<UartMessageType_to_raw(m.message_type)>> \o m.payload

\* The bytes the CRC is computed over when sending: msg_type, payload_len,
\* payload.
to_bytes_crc_data(m) ==
    <<UartMessageType_to_raw(m.message_type), m.payload_length>> \o m.payload

UartMessage_to_bytes(m) ==
    UART_SYNC_BYTES
        \o to_le_bytes(calculate_crc(to_bytes_crc_data(m)))
        \o <<UartMessageType_to_raw(m.message_type), m.payload_length>>
        \o m.payload

\* Results of the parsers.  crc_evaluated tells whether calculate_crc had
\* been called when the parser returned.
InvalidData(context) ==
    [ok |-> FALSE, error |-> "InvalidData", context |-> context,
     crc_evaluated |-> FALSE]

\* Variant of the CrcMismatch error with the two values exchanged.
CrcMismatch_swapped(expected, actual) ==
    [ok |-> FALSE, error |-> "CrcMismatch", expected |-> actual,
     actual |-> expected, crc_evaluated |-> TRUE]

CrcMismatch(expected, actual) ==
    [ok |-> FALSE, error |-> "CrcMismatch", expected |-> expected,
     actual |-> actual, crc_evaluated |-> TRUE]

\* A slice or an index beyond the end of the buffer.
IndexPanic == [ok |-> FALSE, error |-> "panic", crc_evaluated |-> FALSE]

\* UartMessageHeader::parse
UartMessageHeader_parse(data) ==
    IF Len(data) < HEADER_SIZE THEN InvalidData("Header too short")
    ELSE IF At(data, 0) # UART_SYNC_BYTES[1] \/ At(data, 1) # UART_SYNC_BYTES[2]
    THEN InvalidData("Invalid sync bytes")
    ELSE [ok |-> TRUE,
          message_type |-> UartMessageType_from_raw(At(data, 4)),
          payload_length |-> At(data, 5)]

\* Variant of the completeness test that lets every buffer through.
message_incomplete_never(have, expected_len) == FALSE

\* data.len() < expected_len
message_incomplete(have, expected_len) == have < expected_len

\* The part of UartMessage::parse after the length checks: CRC comparison
\* and payload extraction.
parse_verified(data, header, received_crc, calculated_crc) ==
    IF received_crc # calculated_crc
    THEN CrcMismatch(calculated_crc, received_crc)
    ELSE [ok |-> TRUE,
          message |-> [message_type |-> header.message_type,
                       payload_length |-> header.payload_length,
                       payload |-> Slice(data, HEADER_SIZE,
                                         HEADER_SIZE + header.payload_length)],
          crc_evaluated |-> TRUE]

UartMessage_parse(data) ==
    IF Len(data) < HEADER_SIZE THEN InvalidData("Message too short")
    ELSE \* header is bound to the value of UartMessageHeader::parse(data)
      LET on_header(header) ==
            IF ~header.ok THEN header
            ELSE IF message_incomplete(Len(data),
                                       HEADER_SIZE + header.payload_length)
            THEN InvalidData("Message incomplete")
            ELSE IF HEADER_SIZE + header.payload_length > Len(data)
            THEN IndexPanic
            ELSE parse_verified(
                     data, header,
                     from_le_bytes(At(data, 2), At(data, 3)),
                     calculate_crc(
                         <<At(data, 4), At(data, 5)>>
                             \o Slice(data, HEADER_SIZE,
                                      HEADER_SIZE + header.payload_length)))
      IN  on_header(UartMessageHeader_parse(data))

(***************************************************************************)
(* The UART codec applied to inputs drawn at the start: messages to send,  *)
(* received buffers (frames with right and wrong sync bytes, CRC fields    *)
(* and declared lengths, cut at every length) and message type bytes.       *)
(***************************************************************************)
PayloadOfLen(n) == [i \in 1..n |-> (6 + i) % 256]
PayloadInputs ==
    {PayloadOfLen(n) : n \in 0..MaxPayload} \cup {<<202, 254>>, PayloadOfLen(255)}

MessageInputs ==
    {[kind |-> "message", message_type |-> t, payload |-> p] :
        t \in UartMessageTypes, p \in PayloadInputs}

\* A frame with declared length len, payload bytes p and the CRC field
\* right (flip = 0) or with the bits of flip inverted.
Frame(s0, s1, t, len, p, flip) ==
    <<s0, s1>>
        \o to_le_bytes(BitXor[
               calculate_crc(<<t, len>>
                   \o SubSeq(p, 1, IF len < Len(p) THEN len ELSE Len(p))),
               flip])
        \o <<t, len>> \o p

FrameInputs ==
    {Frame(s0, s1, t, len, PayloadOfLen(n), flip) :
        s0 \in {202, 203}, s1 \in {254, 0}, t \in {1, 129, 64, 255},
        len \in (0..MaxPayload) \cup {255}, n \in 0..MaxPayload,
        flip \in {0, 1, 32768}}

BufferInputs ==
    UNION {{[kind |-> "buffer", data |-> SubSeq(f, 1, n)] : n \in 0..Len(f)} :
              f \in FrameInputs}

ByteInputs == {[kind |-> "byte", value |-> v] : v \in 0..255}

codecUnchanged ==
    <<now, state, is_stale, sent, result, connVars, characteristics,
      callVars, taskVars, input, managerVars, logVars>>

\* UartMessage::new(..).to_bytes() and UartMessage::parse of the bytes.
UartRoundTrip ==
    /\ input.kind = "message"
    /\ output.op = "none"
    /\ \E bytes \in {UartMessage_to_bytes(
                        UartMessage_new(input.message_type, input.payload))} :
          output' = [op |-> "to_bytes", bytes |-> bytes,
                     parsed |-> UartMessage_parse(bytes)]
    /\ UNCHANGED codecUnchanged

\* UartMessage::parse of a received buffer.
UartParse ==
    /\ input.kind = "buffer"
    /\ output.op = "none"
    /\ output' = [op |-> "parse", parsed |-> UartMessage_parse(input.data)]
    /\ UNCHANGED codecUnchanged

\* UartMessageType::from_raw of a byte and response_type of the result.
UartTypeFromRaw ==
    /\ input.kind = "byte"
    /\ output.op = "none"
    /\ \E t \in {UartMessageType_from_raw(input.value)} :
          output' = [op |-> "from_raw", message_type |-> t,
                     response |-> response_type(t)]
    /\ UNCHANGED codecUnchanged

InitUart ==
    /\ InitSession
    /\ input \in MessageInputs \cup BufferInputs \cup ByteInputs
    /\ output = [op |-> "none"]

NextUart == UartRoundTrip \/ UartParse \/ UartTypeFromRaw

SpecUart == InitUart /\ [][NextUart]_vars

\* C14: for every message type and payload of at most 255 bytes, to_bytes
\* gives CA FE, the little-endian CRC-16 of [type, length, payload], the
\* type byte, the length byte and the payload, and parsing these bytes
\* gives back the same type and payload.
C14_RoundTrip ==
    output.op = "to_bytes" =>
        /\ Len(input.payload) <= 255
        /\ output.bytes =
              <<202, 254>>
                 \o <<calculate_crc(
                          <<UartMessageType_to_raw(input.message_type),
                            Len(input.payload)>> \o input.payload) % 256,
                      calculate_crc(
                          <<UartMessageType_to_raw(input.message_type),
                            Len(input.payload)>> \o input.payload) \div 256>>
                 \o <<UartMessageType_to_raw(input.message_type),
                      Len(input.payload)>>
                 \o input.payload
        /\ output.parsed.ok
        /\ output.parsed.message.message_type = input.message_type
        /\ output.parsed.message.payload = input.payload

\* A 255-byte payload sent as an Unknown-type message has come back.
C14_Witness ==
    /\ output.op = "to_bytes"
    /\ input.message_type = "Unknown"
    /\ Len(input.payload) = 255
    /\ Len(output.bytes) = 261
    /\ output.parsed.ok

\* The received buffer is one that the claims C15 and C16 call complete:
\* six bytes or more, CA FE first, and the declared payload all there.
BufferComplete(d) ==
    /\ Len(d) >= 6
    /\ d[1] = 202
    /\ d[2] = 254
    /\ 6 + d[6] <= Len(d)

\* C15: a buffer shorter than 6 bytes, or not starting with CA FE, or
\* declaring more payload than it holds, is rejected as invalid data before
\* the CRC is computed: the result is never CrcMismatch and no read goes
\* beyond the buffer.
C15_RejectedBeforeCrc ==
    (output.op = "parse" /\ ~BufferComplete(input.data)) =>
        /\ ~output.parsed.ok
        /\ output.parsed.error = "InvalidData"
        /\ ~output.parsed.crc_evaluated

\* A buffer of the right length with a wrong first sync byte and a wrong
\* CRC field has been rejected for its sync bytes.
C15_Witness ==
    /\ output.op = "parse"
    /\ Len(input.data) = 8
    /\ input.data[6] = 2
    /\ input.data[1] = 203
    /\ from_le_bytes(input.data[3], input.data[4])
          # calculate_crc(SubSeq(input.data, 5, 8))
    /\ output.parsed.error = "InvalidData"
    /\ output.parsed.context = "Invalid sync bytes"

\* C16: for a buffer with CA FE and its declared payload complete, parse
\* answers CrcMismatch exactly when the CRC field differs from the CRC-16 of
\* [type, length, payload], with expected the computed and actual the
\* received value and no payload in the answer; otherwise it answers the
\* message.
C16_CrcVerdict ==
    (output.op = "parse" /\ BufferComplete(input.data)) =>
        LET d == input.data
            computed == calculate_crc(SubSeq(d, 5, 6 + d[6]))
            received == d[3] + 256 * d[4]
        IN  IF received # computed
            THEN /\ ~output.parsed.ok
                 /\ output.parsed.error = "CrcMismatch"
                 /\ output.parsed.expected = computed
                 /\ output.parsed.actual = received
                 /\ "message" \notin DOMAIN output.parsed
            ELSE /\ output.parsed.ok
                 /\ output.parsed.message.message_type
                       = UartMessageType_from_raw(d[5])
                 /\ output.parsed.message.payload = SubSeq(d, 7, 6 + d[6])
                 /\ Len(output.parsed.message.payload) = d[6]

\* A complete frame followed by one more byte, its CRC field off by the
\* top bit, has been answered with CrcMismatch.
C16_Witness ==
    /\ output.op = "parse"
    /\ BufferComplete(input.data)
    /\ Len(input.data) = 6 + input.data[6] + 1
    /\ ~output.parsed.ok
    /\ output.parsed.error = "CrcMismatch"
    /\ output.parsed.expected = BitXor[output.parsed.actual, 32768]

(***************************************************************************)
(* append_crc and verify_crc on data drawn at the start, the appended      *)
(* buffer being passed on as it is or with one bit inverted.                *)
(***************************************************************************)
CrcByteInputs == {0, 128, 255}

RECURSIVE SeqsOfLen(_, _)
SeqsOfLen(S, n) ==
    IF n = 0 THEN {<<>>}
    ELSE {Append(q, b) : q \in SeqsOfLen(S, n - 1), b \in S}

CrcDataInputs == UNION {SeqsOfLen(CrcByteInputs, n) : n \in 1..MaxPayload}

\* flip = -1: no bit is inverted; otherwise the bit flip % 8 of the byte
\* flip \div 8 (0-based) of the appended buffer.
CrcInputs ==
    UNION {{[kind |-> "crc", data |-> d, flip |-> k] :
               k \in -1..(8 * (Len(d) + 2) - 1)} : d \in CrcDataInputs}

ShortInputs ==
    {[kind |-> "short", data |-> d] :
        d \in SeqsOfLen(CrcByteInputs, 0) \cup SeqsOfLen(CrcByteInputs, 1)
                 \cup SeqsOfLen(CrcByteInputs, 2)}

FlipBit(buf, k) ==
    IF k < 0 THEN buf
    ELSE [buf EXCEPT ![(k \div 8) + 1] = BitXor[@, 2 ^ (k % 8)]]

\* append_crc(data), the bit of input.flip inverted, then verify_crc.
CrcAppendVerify ==
    /\ input.kind = "crc"
    /\ output.op = "none"
    /\ \E appended \in {append_crc(input.data)} :
          output' = [op |-> "append_verify", appended |-> appended,
                     verified |-> verify_crc(FlipBit(appended, input.flip))]
    /\ UNCHANGED codecUnchanged

\* verify_crc of a buffer of fewer than three bytes.
CrcVerifyShort ==
    /\ input.kind = "short"
    /\ output.op = "none"
    /\ output' = [op |-> "verify", verified |-> verify_crc(input.data)]
    /\ UNCHANGED codecUnchanged

InitCrc ==
    /\ InitSession
    /\ input \in CrcInputs \cup ShortInputs
    /\ output = [op |-> "none"]

NextCrc == CrcAppendVerify \/ CrcVerifyShort

SpecCrc == InitCrc /\ [][NextCrc]_vars

\* C17: for non-empty data d, append_crc(d) is d followed by its CRC-16 low
\* byte first and verify_crc accepts it; with any single bit of it inverted,
\* in the data or in the CRC bytes, verify_crc rejects it; and verify_crc
\* answers false on fewer than three bytes.
C17_CrcDetects ==
    /\ output.op = "append_verify" =>
          /\ Len(output.appended) = Len(input.data) + 2
          /\ SubSeq(output.appended, 1, Len(input.data)) = input.data
          /\ output.appended[Len(input.data) + 1]
                + 256 * output.appended[Len(input.data) + 2]
                = calculate_crc(input.data)
          /\ output.verified = (input.flip = -1)
    /\ output.op = "verify" => (Len(input.data) < 3 /\ ~output.verified)

\* A buffer whose CRC high byte had its top bit inverted has been rejected.
C17_Witness ==
    /\ output.op = "append_verify"
    /\ Len(input.data) = 2
    /\ input.flip = 31
    /\ ~output.verified

\* C18: from_raw never fails and gives Unknown for every byte that is not a
\* defined type value; for a request type (raw 0x01..0x0C) response_type is
\* the defined type whose raw value is the request's with bit 0x80 set; for
\* a response type and for Unknown it is None.
C18_ResponseType ==
    output.op = "from_raw" =>
        LET v == input.value
            t == output.message_type
        IN  /\ t \in UartMessageTypes
            /\ (v \notin (1..12) \cup (129..140)) <=> (t = "Unknown")
            /\ t # "Unknown" => UartMessageType_to_raw(t) = v
            /\ IF v \in 1..12
               THEN /\ IsSome(output.response)
                    /\ Unwrap(output.response) # "Unknown"
                    /\ UartMessageType_to_raw(Unwrap(output.response)) = v + 128
               ELSE output.response = None

\* The byte 0x0C has been decoded as a request type whose response type has
\* the raw value 0x8C.
C18_Witness ==
    /\ output.op = "from_raw"
    /\ input.value = 12
    /\ output.message_type = "SilenceAlarms"
    /\ output.response = Some("SilenceAlarmsResponse")

(***************************************************************************)
(* The two payload decoders on payloads of every length: the sample        *)
(* payloads and payloads of one repeated byte, cut at every length.         *)
(***************************************************************************)
\* len bytes of value v; the bytes at the (1-based) positions tops, the top
\* bytes of the u32 fields, are 0 so that the field stays within the
\* integers of the model checker.
FillBytes(len, v, tops) == [i \in 1..len |-> IF i \in tops THEN 0 ELSE v]

AdvPayloadInputs ==
    {[kind |-> "advertising", data |-> d] :
        d \in UNION {{AdvBytes(n, 1, 1, ModeIdByte(0, 1, 1), 0),
                      FillBytes(n, 255, {5}), FillBytes(n, 90, {5})} :
                     n \in 0..MaxAdvLen}}

StatusPayloadInputs ==
    {[kind |-> "status", data |-> d] :
        d \in UNION {{StatusBytes(n, 8, ModeIdByte(0, 4, 6), 4, 1, 1, 1),
                      FillBytes(n, 255, {4, 8, 48}),
                      FillBytes(n, 90, {4, 8, 48})} :
                     n \in 0..MaxStatusLen}}

\* AdvertisingData::parse of a manufacturer-data payload.
DecodeAdvertising ==
    /\ input.kind = "advertising"
    /\ output.op = "none"
    /\ output' = [op |-> "advertising_parse",
                  parsed |-> AdvertisingData_parse(input.data)]
    /\ UNCHANGED codecUnchanged

\* ProbeStatus::parse of a status notification payload.
DecodeStatus ==
    /\ input.kind = "status"
    /\ output.op = "none"
    /\ output' = [op |-> "status_parse",
                  parsed |-> ProbeStatus_parse(input.data)]
    /\ UNCHANGED codecUnchanged

InitDecode ==
    /\ InitSession
    /\ input \in AdvPayloadInputs \cup StatusPayloadInputs
    /\ output = [op |-> "none"]

NextDecode == DecodeAdvertising \/ DecodeStatus

SpecDecode == InitDecode /\ [][NextDecode]_vars

\* C19: AdvertisingData::parse fails exactly for payloads under 20 bytes
\* and ProbeStatus::parse exactly for payloads under 30 bytes, whatever the
\* bytes are; a longer payload cut anywhere decodes, the overheating byte
\* being 0 when the payload ends before it and every optional section that
\* the payload does not reach being absent.
C19_LengthOnly ==
    /\ output.op = "advertising_parse" =>
          /\ IsSome(output.parsed) <=> (Len(input.data) >= 20)
          /\ IsSome(output.parsed) =>
                Unwrap(output.parsed).overheating_sensors
                   = IF Len(input.data) >= 22 THEN input.data[22] ELSE 0
    /\ output.op = "status_parse" =>
          /\ IsSome(output.parsed) <=> (Len(input.data) >= 30)
          /\ IsSome(output.parsed) =>
                LET status == Unwrap(output.parsed)
                    len == Len(input.data)
                IN  /\ status.overheating
                          = IF len >= 49 THEN input.data[49] ELSE 0
                    /\ len < 40 => status.food_safe_config = None
                    /\ len < 48 => status.food_safe_status = None
                    /\ len < 50 => status.thermometer_preferences = None
                    /\ len < 94 => status.alarm_config = None

\* A status payload of 0xFF bytes that ends inside the food-safe status
\* section has been decoded, with no overheating byte and no section
\* after the food-safe configuration.
C19_Witness ==
    /\ output.op = "status_parse"
    /\ Len(input.data) = 45
    /\ input.data[1] = 255
    /\ IsSome(output.parsed)
    /\ Unwrap(output.parsed).overheating = 0
    /\ Unwrap(output.parsed).food_safe_status = None
    /\ Unwrap(output.parsed).thermometer_preferences = None

(***************************************************************************)
(* RawTemperature conversions.  A temperature in degrees is kept in 1/100  *)
(* degree, so that every raw value has an exact image.                     *)
(***************************************************************************)
\* f64::round of n / 5: to the nearest integer, halves away from zero.
RoundDiv5(n) ==
    IF n >= 0 THEN (2 * n + 5) \div 10 ELSE 0 - ((5 - 2 * n) \div 10)

\* `as u16` on an f64: saturating.
SaturateU16(x) == IF x < 0 THEN 0 ELSE IF x > 65535 THEN 65535 ELSE x

Min(a, b) == IF a < b THEN a ELSE b

\* Variant of from_celsius that clamps to the 13-bit maximum 0x1FFF.
RawTemperature_from_celsius_13bit(celsius) ==
    Min(SaturateU16(RoundDiv5(celsius + 2000)), INVALID_RAW)

\* RawTemperature::from_celsius: ((celsius + 20.0) * 20.0).round() as u16,
\* then min(MAX_VALUE).
RawTemperature_from_celsius(celsius) ==
    Min(SaturateU16(RoundDiv5(celsius + 2000)), MAX_VALUE)

RawInputs == {[kind |-> "raw", value |-> r] : r \in 0..INVALID_RAW}

\* Temperatures around the two ends of the range, and far beyond them.
CelsiusInputs ==
    {[kind |-> "celsius", value |-> c] :
        c \in ((0 - 2000 - TempMargin)..(TempMargin - 2000))
                 \cup ((38950 - TempMargin)..(38950 + TempMargin))
                 \cup {0, 2300, 10000, 7000000, -7000000}}

TemperatureToCelsius ==
    /\ input.kind = "raw"
    /\ output.op = "none"
    /\ output' = [op |-> "to_celsius",
                  celsius |-> RawTemperature_to_celsius(
                                  RawTemperature_new(input.value))]
    /\ UNCHANGED codecUnchanged

TemperatureFromCelsius ==
    /\ input.kind = "celsius"
    /\ output.op = "none"
    /\ output' = [op |-> "from_celsius",
                  raw |-> RawTemperature_from_celsius(input.value)]
    /\ UNCHANGED codecUnchanged

InitTemperature ==
    /\ InitSession
    /\ input \in RawInputs \cup CelsiusInputs
    /\ output = [op |-> "none"]

NextTemperature == TemperatureToCelsius \/ TemperatureFromCelsius

SpecTemperature == InitTemperature /\ [][NextTemperature]_vars

\* C20: to_celsius of a 13-bit raw value r is absent exactly for r = 0x1FFF
\* and is r * 0.05 - 20 otherwise (0.0 for 400, 100.0 for 2400);
\* from_celsius gives a raw value in 0..0x1FFE for every temperature, the
\* nearest one inside the range and the end of the range outside it.
C20_Temperature ==
    /\ output.op = "to_celsius" =>
          /\ (output.celsius = None) <=> (input.value = 8191)
          /\ input.value # 8191 =>
                output.celsius = Some(5 * input.value - 2000)
          /\ input.value = 400 => output.celsius = Some(0)
          /\ input.value = 2400 => output.celsius = Some(10000)
    /\ output.op = "from_celsius" =>
          /\ output.raw \in 0..8190
          /\ input.value <= -2000 => output.raw = 0
          /\ input.value >= 38950 => output.raw = 8190
          /\ (input.value >= -2000 /\ input.value <= 38950) =>
                /\ 5 * output.raw - 2000 - input.value <= 2
                /\ input.value - (5 * output.raw - 2000) <= 2

\* 389.55 degrees, the image of the sentinel 0x1FFF, has been encoded as
\* 0x1FFE.
C20_Witness ==
    /\ output.op = "from_celsius"
    /\ input.value = 38955
    /\ output.raw = 8190

(***************************************************************************)
(* Virtual temperatures, as both decoders compute them.                    *)
(***************************************************************************)
\* Sensor arrays: all readings valid and distinct, and arrays in which some
\* readings are the invalid sentinel.
SensorArrayInputs ==
    { [i \in 1..8 |-> 400 + 20 * i],
      [i \in 1..8 |-> IF i \in {1, 4, 7} THEN INVALID_RAW ELSE 400 + 20 * i],
      [i \in 1..8 |-> IF i \in {5, 8} THEN INVALID_RAW ELSE 900 - 20 * i] }

VirtualInputs ==
    {[kind |-> "virtual", byte |-> b, temperatures |-> t] :
        b \in 0..255, t \in SensorArrayInputs}

\* AdvertisingData::parse hands compute_virtual_temps the status byte
\* shifted right by one.
VirtualFromAdvertising ==
    /\ input.kind = "virtual"
    /\ output.op = "none"
    /\ output' = [op |-> "compute_virtual_temps",
                  virtual |-> compute_virtual_temps(input.temperatures,
                                                    Shr(input.byte, 1))]
    /\ UNCHANGED codecUnchanged

VirtualFromStatus ==
    /\ input.kind = "virtual"
    /\ output.op = "none"
    /\ output' = [op |-> "parse_virtual_temps_from_config",
                  virtual |-> parse_virtual_temps_from_config(
                                  input.byte, input.temperatures)]
    /\ UNCHANGED codecUnchanged

InitVirtual ==
    /\ InitSession
    /\ input \in VirtualInputs
    /\ output = [op |-> "none"]

NextVirtual == VirtualFromAdvertising \/ VirtualFromStatus

SpecVirtual == InitVirtual /\ [][NextVirtual]_vars

\* The reading a virtual temperature must show: absent when the index is
\* outside 0..7 or the reading is the sentinel, else the sensor's temperature.
SelectedReading(temperatures, index) ==
    IF index \notin 0..7 \/ temperatures[index + 1] = INVALID_RAW THEN None
    ELSE Some(temperatures[index + 1] * 5 - 2000)

\* C21: in both decoders, for every selection byte and every sensor array,
\* the core, surface and ambient virtual temperatures are absent exactly when
\* the selected reading (core = 3-bit index, surface = 2-bit offset + 3,
\* ambient = 2-bit offset + 4) is the sentinel or its index is outside 0..7,
\* and are that sensor's temperature otherwise.
C21_VirtualSelected ==
    output.op \in {"compute_virtual_temps", "parse_virtual_temps_from_config"} =>
        LET sel == Low(Shr(input.byte, 1), 7)
            v == output.virtual
        IN  /\ v.sensor_selection.core_sensor = Low(sel, 3)
            /\ v.sensor_selection.surface_sensor = Low(Shr(sel, 3), 2) + 3
            /\ v.sensor_selection.ambient_sensor = Low(Shr(sel, 5), 2) + 4
            /\ v.core = SelectedReading(input.temperatures, Low(sel, 3))
            /\ v.surface = SelectedReading(input.temperatures,
                                           Low(Shr(sel, 3), 2) + 3)
            /\ v.ambient = SelectedReading(input.temperatures,
                                           Low(Shr(sel, 5), 2) + 4)

\* What does hold: the session-status decoder follows the rule for all three
\* virtual temperatures, the advertising decoder for surface and ambient, and
\* for core whenever the 3-bit index is below 6.
C21_VirtualSelectedBelowSix ==
    output.op \in {"compute_virtual_temps", "parse_virtual_temps_from_config"} =>
        LET sel == Low(Shr(input.byte, 1), 7)
            v == output.virtual
        IN  /\ v.surface = SelectedReading(input.temperatures,
                                           Low(Shr(sel, 3), 2) + 3)
            /\ v.ambient = SelectedReading(input.temperatures,
                                           Low(Shr(sel, 5), 2) + 4)
            /\ (output.op = "parse_virtual_temps_from_config" \/ Low(sel, 3) < 6)
                  => v.core = SelectedReading(input.temperatures, Low(sel, 3))
            /\ (output.op = "compute_virtual_temps" /\ Low(sel, 3) >= 6)
                  => v.core = None

(***************************************************************************)
(* ProbeTemperatures::to_packed_bytes and its inverse.                     *)
(***************************************************************************)
\* What value number i (from 0) ORs into byte k (from 0) of the block; the
\* third byte is written when bit_position > spill_above.
packed_write(raw, i, k, spill_above) ==
    LET bit_offset == 13 * i
        byte_offset == bit_offset \div 8
        bit_position == bit_offset % 8
        raw_value == Low(raw, 13)
    IN  IF k = byte_offset
        THEN Low(Shl16(raw_value, bit_position), 8)
        ELSE IF k = byte_offset + 1
        THEN Low(Shr(raw_value, 8 - bit_position), 8)
        ELSE IF k = byte_offset + 2 /\ bit_position > spill_above
                /\ byte_offset + 2 < 13
        THEN Low(Shr(raw_value, 16 - bit_position), 8)
        ELSE 0

pack_values(values, spill_above) ==
    LET byte[k \in Nat, i \in Nat] ==
            IF i = 0 THEN 0
            ELSE BitOr[byte[k, i - 1],
                       packed_write(values[i], i - 1, k, spill_above)]
    IN  [k \in 1..13 |-> byte[k - 1, 8]]

\* Variant of to_packed_bytes that writes a third byte only from bit
\* position 5 on.
ProbeTemperatures_to_packed_bytes_late_spill(values) == pack_values(values, 4)

ProbeTemperatures_to_packed_bytes(values) == pack_values(values, 3)

\* Bit number n of a number.
BitOf(x, n) == Shr(x, n) % 2

PackedValueInputs == {0, 1, 2730, 4096, 5461, 8190, 8191}

\* Arrays with two chosen values on a background of all zeroes or all ones,
\* and the array of the round-trip test.
PackedArrayInputs ==
    {[n \in 1..8 |-> IF n = i THEN a ELSE IF n = j THEN b ELSE bg] :
        i \in 1..8, j \in 1..8, a \in PackedValueInputs,
        b \in PackedValueInputs, bg \in {0, 8191}}
      \cup {<<100, 200, 300, 400, 500, 600, 700, 800>>}

PackedInputs == {[kind |-> "packed", values |-> v] : v \in PackedArrayInputs}

PackTemperatures ==
    /\ input.kind = "packed"
    /\ output.op = "none"
    /\ \E bytes \in {ProbeTemperatures_to_packed_bytes(input.values)} :
          output' = [op |-> "to_packed_bytes", bytes |-> bytes,
                     unpacked |-> ProbeTemperatures_from_packed_bytes(bytes)]
    /\ UNCHANGED codecUnchanged

InitPacked ==
    /\ InitSession
    /\ input \in PackedInputs
    /\ output = [op |-> "none"]

NextPacked == PackTemperatures

SpecPacked == InitPacked /\ [][NextPacked]_vars

\* C22: to_packed_bytes puts bit k of value i at bit 13*i + k of the 13-byte
\* block, counting bits from the least significant bit of the first byte, so
\* every bit of the block belongs to exactly one value; and unpacking the
\* block gives the array back.
C22_PackedLayout ==
    output.op = "to_packed_bytes" =>
        /\ Len(output.bytes) = 13
        /\ \A n \in 1..13 : output.bytes[n] \in 0..255
        /\ \A i \in 0..7 : \A k \in 0..12 :
              BitOf(output.bytes[((13 * i + k) \div 8) + 1], (13 * i + k) % 8)
                  = BitOf(input.values[i + 1], k)
        /\ output.unpacked = Some(input.values)

\* An array holding the sentinel beside a value with alternating bits has
\* been packed and unpacked.
C22_Witness ==
    /\ output.op = "to_packed_bytes"
    /\ input.values[5] = 5461
    /\ input.values[6] = 8191
    /\ output.unpacked = Some(input.values)

(***************************************************************************)
(* AlarmStatus::to_bytes.  The temperature handed to the encoder is kept   *)
(* in 1/100 degree, finer than the 0.1 degree grid of the wire format, so  *)
(* that rounding is visible; the decoder returns 1/10 degree.              *)
(***************************************************************************)
\* f64::round of n / 10: to the nearest integer, halves away from zero.
RoundDiv10(n) ==
    IF n >= 0 THEN (n + 5) \div 10 ELSE 0 - ((5 - n) \div 10)

\* Variant of the temperature encoding without the 13-bit clamp: the mask
\* in `(temp_raw & 0x1FFF) << 3` is all that limits the value.
alarm_temp_raw_masked(celsius100) ==
    Low(SaturateU16(RoundDiv10(celsius100 + 2000)), 13)

\* ((self.temperature + 20.0) / 0.1).round() as u16, then min(0x1FFF).
alarm_temp_raw(celsius100) ==
    Min(SaturateU16(RoundDiv10(celsius100 + 2000)), 8191)

AlarmStatus_to_bytes(a) ==
    LET flags == BitOr[BitOr[IF a.set THEN 1 ELSE 0,
                             IF a.tripped THEN 2 ELSE 0],
                       IF a.alarming THEN 4 ELSE 0]
        packed == BitOr[flags,
                        Shl16(Low(alarm_temp_raw(a.temperature), 13), 3)]
    IN  to_le_bytes(packed)

\* Temperatures in 1/100 degree: on the 0.1 degree grid and 0.03 degree to
\* either side of it.
AlarmGrid(tenths) == {10 * t + d : t \in tenths, d \in {-3, 0, 3}}

AlarmInputs ==
    {[kind |-> "alarm",
      alarm |-> [set |-> s, tripped |-> t, alarming |-> a, temperature |-> c]] :
        s \in BOOLEAN, t \in BOOLEAN, a \in BOOLEAN,
        c \in AlarmGrid(((0 - 200 - TempMargin)..(TempMargin - 200))
                           \cup {0, 250, 630, 1000, 5000}
                           \cup ((7991 - TempMargin)..(7991 + TempMargin)))
               \cup {-7000000, 7000000}}
      \cup
    {[kind |-> "alarm",
      alarm |-> [set |-> TRUE, tripped |-> FALSE, alarming |-> TRUE,
                 temperature |-> 10 * t]] : t \in (0 - 200)..7991}

AlarmRoundTrip ==
    /\ input.kind = "alarm"
    /\ output.op = "none"
    /\ \E bytes \in {AlarmStatus_to_bytes(input.alarm)} :
          output' = [op |-> "alarm_to_bytes", bytes |-> bytes,
                     parsed |-> AlarmStatus_from_bytes(bytes)]
    /\ UNCHANGED codecUnchanged

InitAlarm ==
    /\ InitSession
    /\ input \in AlarmInputs
    /\ output = [op |-> "none"]

NextAlarm == AlarmRoundTrip

SpecAlarm == InitAlarm /\ [][NextAlarm]_vars

\* C23: to_bytes puts set/tripped/alarming in bits 0/1/2 and
\* round((celsius + 20) / 0.1), clamped to 0..0x1FFF, in bits 3..15, so a
\* temperature outside the range encodes as the nearest end of the range;
\* for every flag combination and every temperature in [-20.0, 799.1] on the
\* 0.1 grid, decoding the bytes gives the same flags and a temperature within
\* 0.1 of the original.
C23_AlarmEncoding ==
    output.op = "alarm_to_bytes" =>
        LET a == input.alarm
            packed == output.bytes[1] + 256 * output.bytes[2]
            r == RoundDiv10(a.temperature + 2000)
        IN  /\ Len(output.bytes) = 2
            /\ BitOf(packed, 0) = (IF a.set THEN 1 ELSE 0)
            /\ BitOf(packed, 1) = (IF a.tripped THEN 1 ELSE 0)
            /\ BitOf(packed, 2) = (IF a.alarming THEN 1 ELSE 0)
            /\ Shr(packed, 3) = (IF r < 0 THEN 0 ELSE IF r > 8191 THEN 8191 ELSE r)
            /\ (a.temperature % 10 = 0 /\ a.temperature >= -2000
                    /\ a.temperature <= 79910) =>
                  /\ IsSome(output.parsed)
                  /\ Unwrap(output.parsed).set = a.set
                  /\ Unwrap(output.parsed).tripped = a.tripped
                  /\ Unwrap(output.parsed).alarming = a.alarming
                  /\ 10 * Unwrap(output.parsed).temperature - a.temperature <= 10
                  /\ a.temperature - 10 * Unwrap(output.parsed).temperature <= 10

\* A temperature just above the range, 799.2 degrees, has been encoded as
\* the largest raw value with all three flags set.
C23_Witness ==
    /\ output.op = "alarm_to_bytes"
    /\ input.alarm.temperature = 79920
    /\ input.alarm.set /\ input.alarm.tripped /\ input.alarm.alarming
    /\ output.bytes = <<255, 255>>

(***************************************************************************)
(* FoodSafeConfig::to_bytes.  As in the decoder, the four scalars are kept *)
(* in 1/100 and the log reduction in 1/10; the two encoding closures take  *)
(* their argument in 1/100.                                                *)
(***************************************************************************)
FoodSafeMode_to_raw(mode) == IF mode = "Integrated" THEN 1 ELSE 0

Serving_to_raw(serving) == IF serving = "CookedAndChilled" THEN 1 ELSE 0

\* `as u8` on an f64: saturating.
SaturateU8(x) == IF x < 0 THEN 0 ELSE IF x > 255 THEN 255 ELSE x

\* Variant of encode_13bit that keeps twelve bits.
encode_12bit(value100) == Low(SaturateU16(RoundDiv5(value100)), 12)

\* (value / 0.05).round() as u16 & 0x1FFF
encode_13bit(value100) == Low(SaturateU16(RoundDiv5(value100)), 13)

\* (value / 0.1).round() as u8
encode_8bit(value100) == SaturateU8(RoundDiv10(value100))

FoodSafeConfig_to_bytes(c) ==
    LET threshold == encode_13bit(c.threshold_temperature)
        z == encode_13bit(c.z_value)
        ref_temp == encode_13bit(c.reference_temperature)
        d == encode_13bit(c.d_value_at_reference)
        log_red == encode_8bit(10 * c.target_log_reduction)
    IN  << BitOr[Low(FoodSafeMode_to_raw(c.mode), 3),
                 Low(Low(Low(c.product, 8), 5) * 8, 8)],
           BitOr[Low(Low(Shr(c.product, 5), 8), 5),
                 Low(Low(Serving_to_raw(c.serving), 3) * 32, 8)],
           Low(threshold, 8),
           BitOr[Low(Shr(threshold, 8), 5), Low(Low(z, 3) * 32, 8)],
           Low(Shr(z, 3), 8),
           BitOr[Low(Shr(z, 11), 2), Low(Low(ref_temp, 6) * 4, 8)],
           BitOr[Low(Shr(ref_temp, 6), 7), Low(Low(d, 1) * 128, 8)],
           Low(Shr(d, 1), 8),
           BitOr[Low(Shr(d, 9), 4), Low(Low(log_red, 4) * 16, 8)],
           Low(Shr(log_red, 4), 4) >>

\* Scalars in 1/100, below, inside and above the range of the 13-bit field
\* (0 .. 409.55) and of the 8-bit field (0 .. 25.5).
Scalar13Inputs ==
    {[kind |-> "scalar13", value |-> v] :
        v \in ((0 - TempMargin)..TempMargin)
                 \cup ((40955 - TempMargin)..(40955 + TempMargin))
                 \cup {5440, 7000, 81920, 7000000, -7000000}}

Scalar8Inputs ==
    {[kind |-> "scalar8", value |-> v] :
        v \in AlarmGrid(((0 - 6)..6) \cup {65, 128} \cup (249..262))
                 \cup {25600, 7000000, -7000000}}

FoodSafeRawInputs == {0, 5461, 8191}

FoodSafeConfigInputs ==
    {[kind |-> "food_safe_config",
      config |-> [mode |-> m, product |-> p, serving |-> s,
                  threshold_temperature |-> 5 * t, z_value |-> 5 * z,
                  reference_temperature |-> 5 * r,
                  d_value_at_reference |-> 5 * d,
                  target_log_reduction |-> l]] :
        m \in {"Simplified", "Integrated"}, p \in {0, 341, 682, 1023},
        s \in {"ServedImmediately", "CookedAndChilled"},
        t \in FoodSafeRawInputs, z \in FoodSafeRawInputs,
        r \in FoodSafeRawInputs, d \in FoodSafeRawInputs,
        l \in {0, 85, 170, 255}}

EncodeScalar13 ==
    /\ input.kind = "scalar13"
    /\ output.op = "none"
    /\ output' = [op |-> "encode_13bit", raw |-> encode_13bit(input.value)]
    /\ UNCHANGED codecUnchanged

EncodeScalar8 ==
    /\ input.kind = "scalar8"
    /\ output.op = "none"
    /\ output' = [op |-> "encode_8bit", raw |-> encode_8bit(input.value)]
    /\ UNCHANGED codecUnchanged

FoodSafeRoundTrip ==
    /\ input.kind = "food_safe_config"
    /\ output.op = "none"
    /\ \E bytes \in {FoodSafeConfig_to_bytes(input.config)} :
          output' = [op |-> "food_safe_to_bytes", bytes |-> bytes,
                     parsed |-> FoodSafeConfig_from_bytes(bytes)]
    /\ UNCHANGED codecUnchanged

InitFoodSafe ==
    /\ InitSession
    /\ input \in Scalar13Inputs \cup Scalar8Inputs \cup FoodSafeConfigInputs
    /\ output = [op |-> "none"]

NextFoodSafe == EncodeScalar13 \/ EncodeScalar8 \/ FoodSafeRoundTrip

SpecFoodSafe == InitFoodSafe /\ [][NextFoodSafe]_vars

\* C24: each 13-bit scalar is encoded as round(value / 0.05) clamped to
\* 0..8191 and the log reduction as round(value / 0.1) clamped to 0..255, so
\* a value beyond the range of its field is not wrapped to a smaller raw
\* value.
C24_ScalarsClamped ==
    /\ output.op = "encode_13bit" =>
          output.raw = Clamp(RoundDiv5(input.value), 0, 8191)
    /\ output.op = "encode_8bit" =>
          output.raw = Clamp(RoundDiv10(input.value), 0, 255)

\* What does hold: the 8-bit field is clamped, and the 13-bit fields are
\* rounded and clamped at zero but reduced modulo 8192 above the range.
C24_ScalarsMasked ==
    /\ output.op = "encode_13bit" =>
          output.raw = Clamp(RoundDiv5(input.value), 0, 65535) % 8192
    /\ output.op = "encode_8bit" =>
          output.raw = Clamp(RoundDiv10(input.value), 0, 255)

\* Bit k of a field of the given width sits at bit offset + k of the block.
FieldAt(bytes, offset, width, raw) ==
    \A k \in 0..(width - 1) :
        BitOf(bytes[((offset + k) \div 8) + 1], (offset + k) % 8) = BitOf(raw, k)

\* C25: for every configuration with fields in range, to_bytes places mode,
\* product, serving, threshold, z-value, reference temperature, d-value and
\* log reduction at bit offsets 0, 3, 13, 16, 29, 42, 55, 68 with widths
\* 3, 10, 3, 13, 13, 13, 13, 8, no field overlapping another, and from_bytes
\* of the block returns the same mode, product, serving and raw scalars.
C25_FoodSafeLayout ==
    output.op = "food_safe_to_bytes" =>
        LET c == input.config
            b == output.bytes
        IN  /\ Len(b) = 10
            /\ \A n \in 1..10 : b[n] \in 0..255
            /\ FieldAt(b, 0, 3, FoodSafeMode_to_raw(c.mode))
            /\ FieldAt(b, 3, 10, c.product)
            /\ FieldAt(b, 13, 3, Serving_to_raw(c.serving))
            /\ FieldAt(b, 16, 13, c.threshold_temperature \div 5)
            /\ FieldAt(b, 29, 13, c.z_value \div 5)
            /\ FieldAt(b, 42, 13, c.reference_temperature \div 5)
            /\ FieldAt(b, 55, 13, c.d_value_at_reference \div 5)
            /\ FieldAt(b, 68, 8, c.target_log_reduction)
            /\ FieldAt(b, 76, 4, 0)
            /\ output.parsed = Some(c)

\* A configuration whose neighbouring fields hold all ones and alternating
\* bits has been encoded and decoded.
C25_Witness ==
    /\ output.op = "food_safe_to_bytes"
    /\ input.config.mode = "Integrated"
    /\ input.config.product = 682
    /\ input.config.threshold_temperature = 5 * 8191
    /\ input.config.z_value = 5 * 5461
    /\ input.config.d_value_at_reference = 5 * 8191
    /\ input.config.target_log_reduction = 170
    /\ output.parsed = Some(input.config)

(***************************************************************************)
(* The enum decoders and `*self as u8`.                                    *)
(***************************************************************************)
\* The variants of each enum, in the order of their discriminants from 0.
EnumVariants ==
    [FoodSafeMode |-> <<"Simplified", "Integrated">>,
     Serving |-> <<"ServedImmediately", "CookedAndChilled">>,
     FoodSafeState |-> <<"NotSafe", "Safe", "SafetyImpossible">>,
     PowerMode |-> <<"Normal", "AlwaysOn">>,
     PredictionState |-> <<"ProbeNotInserted", "ProbeInserted", "Warming",
                           "Predicting", "RemovalPredictionDone",
                           "ReservedState5", "ReservedState6", "Unknown">>,
     PredictionMode |-> <<"None", "TimeToRemoval", "RemovalAndResting",
                          "Reserved">>,
     PredictionType |-> <<"None", "Removal", "Resting", "Reserved">>,
     ProbeMode |-> <<"Normal", "InstantRead", "Reserved", "Error">>,
     ProbeColor |-> <<"Yellow", "Grey", "Red", "Orange", "Blue", "Green",
                      "Purple", "Pink">>]

EnumNames == DOMAIN EnumVariants

enum_from_raw(e, value) ==
    CASE e = "FoodSafeMode" -> FoodSafeMode_from_raw(value)
      [] e = "Serving" -> Serving_from_raw(value)
      [] e = "FoodSafeState" -> FoodSafeState_from_raw(value)
      [] e = "PowerMode" -> PowerMode_from_raw(value)
      [] e = "PredictionState" -> PredictionState_from_raw(value)
      [] e = "PredictionMode" -> PredictionMode_from_raw(value)
      [] e = "PredictionType" -> PredictionType_from_raw(value)
      [] e = "ProbeMode" -> ProbeMode_from_raw(value)
      [] e = "ProbeColor" -> ProbeColor_from_raw(value)

\* to_raw: `*self as u8`, the discriminant of the variant.
enum_to_raw(e, v) ==
    (CHOOSE i \in 1..Len(EnumVariants[e]) : EnumVariants[e][i] = v) - 1

EnumRawInputs ==
    {[kind |-> "enum_raw", enum |-> e, value |-> b] :
        e \in EnumNames, b \in 0..255}

EnumVariantInputs ==
    UNION {{[kind |-> "enum_variant", enum |-> e, variant |-> EnumVariants[e][i]] :
               i \in 1..Len(EnumVariants[e])} : e \in EnumNames}

EnumFromRaw ==
    /\ input.kind = "enum_raw"
    /\ output.op = "none"
    /\ output' = [op |-> "from_raw",
                  variant |-> enum_from_raw(input.enum, input.value)]
    /\ UNCHANGED codecUnchanged

EnumRoundTrip ==
    /\ input.kind = "enum_variant"
    /\ output.op = "none"
    /\ \E raw \in {enum_to_raw(input.enum, input.variant)} :
          output' = [op |-> "to_raw", raw |-> raw,
                     variant |-> enum_from_raw(input.enum, raw)]
    /\ UNCHANGED codecUnchanged

InitEnum ==
    /\ InitSession
    /\ input \in EnumRawInputs \cup EnumVariantInputs
    /\ output = [op |-> "none"]

NextEnum == EnumFromRaw \/ EnumRoundTrip

SpecEnum == InitEnum /\ [][NextEnum]_vars

\* The variant every value without a variant of its own is read as.
EnumFallback ==
    [FoodSafeMode |-> "Simplified", Serving |-> "ServedImmediately",
     FoodSafeState |-> "NotSafe", PowerMode |-> "Normal",
     PredictionState |-> "Unknown", PredictionMode |-> "Reserved",
     PredictionType |-> "Reserved", ProbeMode |-> "Error",
     ProbeColor |-> "Pink"]

\* The width in bits of the field each enum is decoded from.
EnumFieldWidth ==
    [FoodSafeMode |-> 3, Serving |-> 3, FoodSafeState |-> 3, PowerMode |-> 2,
     PredictionState |-> 8, PredictionMode |-> 8, PredictionType |-> 8,
     ProbeMode |-> 2, ProbeColor |-> 3]

\* C26: every enum decoder is total: every raw byte decodes to a variant of
\* the enum, a value of the field without a variant of its own decodes to
\* the fallback (Simplified, ServedImmediately, NotSafe, Normal,
\* Unknown/Reserved), a value with a variant to that variant, and for every
\* variant v, from_raw(to_raw(v)) = v.
C26_EnumsTotal ==
    /\ output.op = "from_raw" =>
          LET variants == EnumVariants[input.enum]
          IN  /\ \E i \in 1..Len(variants) : output.variant = variants[i]
              /\ input.value < 2 ^ EnumFieldWidth[input.enum] =>
                    output.variant =
                        IF input.value < Len(variants)
                        THEN variants[input.value + 1]
                        ELSE EnumFallback[input.enum]
    /\ output.op = "to_raw" =>
          /\ output.raw \in 0..255
          /\ output.variant = input.variant

\* The reserved power mode 2 has been decoded as Normal, and a reserved
\* prediction state as Unknown.
C26_Witness ==
    /\ output.op = "from_raw"
    /\ \/ input.enum = "PowerMode" /\ input.value = 2
             /\ output.variant = "Normal"
       \/ input.enum = "PredictionState" /\ input.value = 200
             /\ output.variant = "Unknown"

(***************************************************************************)
(* DeviceManager and BleScanner.  A managed probe is kept as the BLE        *)
(* identifier it was created with and the RSSI of the last advertisement   *)
(* applied to it.  One caller makes the DeviceManager calls, one at a      *)
(* time, and calls start_scanning only when no task of an earlier scan is  *)
(* still alive; the serial numbers of new probes come in increasing order. *)
(***************************************************************************)
MAX_PROBES == 8

\* Variant of the limit test that lets one probe more in.
at_probe_limit_after(len) == len > MAX_PROBES

\* probes.read().len() >= MAX_PROBES
at_probe_limit(len) == len >= MAX_PROBES

ManagedProbe(identifier, rssi) == [identifier |-> identifier, rssi |-> rssi]

\* handle_discovery_event: the probe map afterwards.
handle_discovery_event(map, event) ==
    IF ~IsSome(event.advertising_data) THEN map
    ELSE IF ~is_predictive_probe(Unwrap(event.advertising_data).product_type)
    THEN map
    ELSE
      LET serial_key == Unwrap(event.advertising_data).serial_number
      IN  IF serial_key \in DOMAIN map
          THEN [map EXCEPT ![serial_key].rssi = event.rssi]
          ELSE IF at_probe_limit(Cardinality(DOMAIN map)) THEN map
          ELSE [k \in DOMAIN map \cup {serial_key} |->
                   IF k = serial_key
                   THEN ManagedProbe(event.identifier, event.rssi)
                   ELSE map[k]]

\* handle_discovery_event: the probe sent on probe_discovered_tx, or the
\* warning logged when the map is full.
discovery_sent(map, event) ==
    IF ~IsSome(event.advertising_data) THEN {}
    ELSE IF ~is_predictive_probe(Unwrap(event.advertising_data).product_type)
    THEN {}
    ELSE
      LET serial_key == Unwrap(event.advertising_data).serial_number
      IN  IF serial_key \in DOMAIN map THEN {[discovered |-> serial_key]}
          ELSE IF at_probe_limit(Cardinality(DOMAIN map))
          THEN {[warned |-> "Maximum probe count reached"]}
          ELSE {[discovered |-> serial_key]}

ScannerEvent(identifier, product_type, serial_number, rssi) ==
    [identifier |-> identifier,
     advertising_data |-> Some([product_type |-> product_type,
                                serial_number |-> serial_number]),
     rssi |-> rssi]

\* What the scanner may report when n probes are managed: probe 1 under
\* two identifiers and with two RSSI values, the next serial number, other
\* products, and a device without parseable data.
ScannerEvents(n) ==
    {ScannerEvent("A", "PredictiveProbe", s, -50) : s \in {1, n + 1}}
      \cup {ScannerEvent("B", "PredictiveProbe", 1, -60),
            ScannerEvent("C", "Display", n + 1, -50),
            ScannerEvent("C", "Display", 1, -50),
            [identifier |-> "D", advertising_data |-> None, rssi |-> -50]}

managerUnchanged ==
    <<now, state, is_stale, result, connVars, characteristics, callVars,
      taskVars, codecVars, logVars, spawnVars, lockVars>>

\* BleScanner::process_peripheral in the scanner's task: the event reaches
\* the receiver of the background task, if there is one.
ScannerReport ==
    /\ scan_task = "running"
    /\ Len(events) < MaxEvents
    /\ \E e \in ScannerEvents(Cardinality(DOMAIN probes)) :
          events' = IF background \in {"check", "select"}
                    THEN Append(events, e) ELSE events
    /\ sent' = {}
    /\ UNCHANGED <<probes, is_running, is_scanning, background, scan_task,
                   manager_call, manager_ret, managerUnchanged>>

\* The scanner's task leaves `while *is_scanning.read()`.
ScanTaskEnd ==
    /\ scan_task = "running"
    /\ ~is_scanning
    /\ scan_task' = "ended"
    /\ sent' = {}
    /\ UNCHANGED <<probes, is_running, is_scanning, background, events,
                   manager_call, manager_ret, managerUnchanged>>

\* The background task at `while is_running.load(..)`.
BackgroundCheck ==
    /\ background = "check"
    /\ background' = IF is_running THEN "select" ELSE "ended"
    /\ events' = IF is_running THEN events ELSE <<>>
    /\ sent' = {}
    /\ UNCHANGED <<probes, is_running, is_scanning, scan_task, manager_call,
                   manager_ret, managerUnchanged>>

\* The background task in select!: rx.recv() returned an event.
BackgroundReceive ==
    /\ background = "select"
    /\ events # <<>>
    /\ probes' = handle_discovery_event(probes, Head(events))
    /\ sent' = discovery_sent(probes, Head(events))
    /\ events' = Tail(events)
    /\ background' = "check"
    /\ UNCHANGED <<is_running, is_scanning, scan_task, manager_call,
                   manager_ret, managerUnchanged>>

\* The background task in select!: the one-second sleep ended.
BackgroundTimer ==
    /\ background = "select"
    /\ background' = "check"
    /\ sent' = {}
    /\ UNCHANGED <<probes, is_running, is_scanning, scan_task, events,
                   manager_call, manager_ret, managerUnchanged>>

\* DeviceManager::start_scanning; outcome is that of adapter.start_scan.
start_scanning(outcome) ==
    /\ manager_call = "idle"
    /\ background \in {"none", "ended"}
    /\ scan_task \in {"none", "ended"}
    /\ IF is_running
       THEN /\ manager_ret' = [op |-> "start_scanning", result |-> "Ok"]
            /\ UNCHANGED <<is_running, is_scanning, background, scan_task>>
       ELSE IF ~is_scanning /\ outcome = "Bluetooth"
       THEN /\ manager_ret' = [op |-> "start_scanning", result |-> "Bluetooth"]
            /\ UNCHANGED <<is_running, is_scanning, background, scan_task>>
       ELSE /\ is_scanning' = TRUE
            /\ scan_task' = IF is_scanning THEN scan_task ELSE "running"
            /\ is_running' = TRUE
            /\ background' = "check"
            /\ manager_ret' = [op |-> "start_scanning", result |-> "Ok"]
    /\ sent' = {}
    /\ UNCHANGED <<probes, events, manager_call, managerUnchanged>>

\* stop_scanning up to its first wait; op is the call it is made for and
\* outcome is that of adapter.stop_scan.
stop_begin(op, outcome) ==
    /\ manager_call = "idle"
    /\ IF ~is_running
       THEN /\ manager_call' = IF op = "shutdown" THEN "shutdown_clear"
                               ELSE "idle"
            /\ manager_ret' = IF op = "shutdown" THEN manager_ret
                              ELSE [op |-> op, result |-> "Ok"]
            /\ UNCHANGED <<is_running, is_scanning>>
       ELSE /\ is_running' = FALSE
            /\ is_scanning' = FALSE
            /\ IF is_scanning /\ outcome = "Bluetooth"
               THEN /\ manager_call' = "idle"
                    /\ manager_ret' = [op |-> op, result |-> "Bluetooth"]
               ELSE /\ manager_call' = op
                    /\ UNCHANGED manager_ret
    /\ sent' = {}
    /\ UNCHANGED <<probes, background, scan_task, events, managerUnchanged>>

\* stop_scanning from `handle.await` on: both tasks have ended.
stop_await(op) ==
    /\ manager_call = op
    /\ scan_task \in {"none", "ended"}
    /\ background \in {"none", "ended"}
    /\ manager_call' = IF op = "shutdown" THEN "shutdown_clear" ELSE "idle"
    /\ manager_ret' = IF op = "shutdown" THEN manager_ret
                      ELSE [op |-> op, result |-> "Ok"]
    /\ sent' = {}
    /\ UNCHANGED <<probes, is_running, is_scanning, background, scan_task,
                   events, managerUnchanged>>

\* DeviceManager::shutdown after stop_scanning returned Ok: every probe is
\* disconnected and the map is cleared.
shutdown_clear ==
    /\ manager_call = "shutdown_clear"
    /\ probes' = <<>>
    /\ manager_call' = "idle"
    /\ manager_ret' = [op |-> "shutdown", result |-> "Ok"]
    /\ sent' = {}
    /\ UNCHANGED <<is_running, is_scanning, background, scan_task, events,
                   managerUnchanged>>

ManagerOutcomes == {"Ok", "Bluetooth"}

NextManager ==
    \/ \E outcome \in ManagerOutcomes : start_scanning(outcome)
    \/ \E outcome \in ManagerOutcomes : stop_begin("stop_scanning", outcome)
    \/ \E outcome \in ManagerOutcomes : stop_begin("shutdown", outcome)
    \/ stop_await("stop_scanning")
    \/ stop_await("shutdown")
    \/ shutdown_clear
    \/ ScannerReport
    \/ ScanTaskEnd
    \/ BackgroundCheck
    \/ BackgroundReceive
    \/ BackgroundTimer

SpecManager == Init /\ [][NextManager]_vars

ShutdownReturnedOk ==
    /\ manager_ret = [op |-> "shutdown", result |-> "Ok"]
    /\ manager_call = "idle"

\* C29: once shutdown() has returned Ok, and until start_scanning is called
\* again, scanning is not running, the background discovery task has
\* terminated, and the probe map is empty.
C29_ShutdownQuiet ==
    ShutdownReturnedOk =>
        /\ ~is_running
        /\ ~is_scanning
        /\ background \in {"none", "ended"}
        /\ probes = <<>>

\* What does hold: both scanning flags are off.
C29_ShutdownStopsScanning ==
    ShutdownReturnedOk => (~is_running /\ ~is_scanning)

(***************************************************************************)
(* TemperatureLog::add_data_point.  A data point is its sequence number    *)
(* and a tag standing for the rest of its contents.                        *)
(***************************************************************************)
\* binary_search_by_key on the sequence numbers: Ok(index) of a point with
\* the key, or Err(index) where a point with the key is to be inserted;
\* indices count from 0.
binary_search_by_key(points, key) ==
    LET search[lo \in Nat, hi \in Nat] ==
            IF lo >= hi THEN [ok |-> FALSE, index |-> lo]
            ELSE LET mid == lo + ((hi - lo) \div 2)
                 IN  IF points[mid + 1].sequence_number < key
                     THEN search[mid + 1, hi]
                     ELSE IF points[mid + 1].sequence_number > key
                     THEN search[lo, mid]
                     ELSE [ok |-> TRUE, index |-> mid]
    IN  search[0, Len(points)]

\* Vec::insert
Vec_insert(points, index, point) ==
    [i \in 1..(Len(points) + 1) |->
        IF i <= index THEN points[i]
        ELSE IF i = index + 1 THEN point
        ELSE points[i - 1]]

\* Variant of the Ok(_) arm that replaces the stored point.
duplicate_point_replaced(points, index, point) ==
    [points EXCEPT ![index + 1] = point]

\* The Ok(_) arm of add_data_point: the point is skipped.
duplicate_point(points, index, point) == points

LogPoints ==
    {[sequence_number |-> n, tag |-> t] : n \in 0..MaxSequence, t \in {1, 2}}

add_data_point(point) ==
    /\ \E pos \in {binary_search_by_key(data_points, point.sequence_number)} :
          data_points' = IF pos.ok
                         THEN duplicate_point(data_points, pos.index, point)
                         ELSE Vec_insert(data_points, pos.index, point)
    /\ output' = [op |-> "add_data_point", point |-> point]
    /\ UNCHANGED <<now, state, is_stale, sent, result, connVars,
                   characteristics, callVars, taskVars, input, managerVars>>

NextLog == \E point \in LogPoints : add_data_point(point)

SpecLog == Init /\ [][NextLog]_vars

\* C30: after any sequence of add_data_point calls the data points are
\* strictly increasing in sequence number; a point whose sequence number is
\* present leaves the log unchanged, and any other point is added to it.
C30_LogSorted ==
    /\ [](\A i \in 1..Len(data_points) : \A j \in 1..Len(data_points) :
             i < j => data_points[i].sequence_number
                          < data_points[j].sequence_number)
    /\ [][\A point \in LogPoints : add_data_point(point) =>
            IF \E i \in 1..Len(data_points) :
                   data_points[i].sequence_number = point.sequence_number
            THEN data_points' = data_points
            ELSE {data_points'[i] : i \in 1..Len(data_points')}
                   = {data_points[i] : i \in 1..Len(data_points)} \cup {point}
         ]_vars

\* A point with a sequence number already in the log, and other contents,
\* has been offered and the stored point is kept.
C30_Witness ==
    /\ Len(data_points) = 3
    /\ output.op = "add_data_point"
    /\ output.point = [sequence_number |-> 2, tag |-> 2]
    /\ \E i \in 1..Len(data_points) :
          data_points[i] = [sequence_number |-> 2, tag |-> 1]
    /\ data_points[1].sequence_number = 0


(***************************************************************************)
(* The probe id: ProbeId is a public one-field tuple struct with a derived *)
(* Default (0); new and from_raw clamp, the field itself does not.         *)
(***************************************************************************)
saturating_sub(a, b) == IF a < b THEN 0 ELSE a - b

ProbeId_default == 0

\* The payload byte of the Set Probe ID request.
build_set_probe_id_request(id) == Low(saturating_sub(id, 1), 3)

\* C31: in every reachable state, after any sequence of advertising
\* updates, status updates and set_id calls, Probe::id() is in 1..8 (and a
\* successful set_id stores the id its request encodes, payload + 1).
C31_IdInRange ==
    /\ state.probe_id \in 1..8
    /\ build_set_probe_id_request(state.probe_id) + 1 = state.probe_id

\* What holds instead: the id is the derived default 0 until an update or
\* a set_id replaces it, and every replacement by a decoded or clamped id
\* is in 1..8 and equals what its request encodes.
C31_IdInRangeOnceReplaced ==
    /\ [](state.probe_id \in {ProbeId_default} \cup 1..8)
    /\ [][state'.probe_id # state.probe_id =>
             /\ state'.probe_id \in 1..8
             /\ build_set_probe_id_request(state'.probe_id) + 1
                    = state'.probe_id]_vars


(***************************************************************************)
(* ConnectionManager::handle_disconnection, called when the loss of the    *)
(* link is detected; the connect(true) it makes is the connect above.      *)
(***************************************************************************)
\* `if !*self.maintain_connection.read()`: set_state(Disconnected) and
\* return, or go on to connect(true).
handle_disconnection(c) ==
    /\ pc[c] = "idle"
    /\ current_state' = [current_state EXCEPT ![c] = conn_state]
    /\ attempts' = [attempts EXCEPT ![c] = 0]
    /\ transport_calls' = [transport_calls EXCEPT ![c] = 0]
    /\ IF ~maintain_connection
       THEN /\ conn_state' = "Disconnected"
            /\ sent' = ConnectionEvent(conn_state, "Disconnected")
            /\ ret' = [ret EXCEPT ![c] = "Unit"]
            /\ pc' = [pc EXCEPT ![c] = "done"]
       ELSE /\ sent' = {}
            /\ ret' = [ret EXCEPT ![c] = "None"]
            /\ pc' = [pc EXCEPT ![c] = "reconnect"]
            /\ UNCHANGED conn_state
    /\ UNCHANGED <<maintain_connection, maintain, connUnchanged>>

\* self.connect(true).await: the state checks at the head of connect.
handle_disconnection_connect(c) ==
    /\ pc[c] = "reconnect"
    /\ current_state' = [current_state EXCEPT ![c] = conn_state]
    /\ maintain' = [maintain EXCEPT ![c] = TRUE]
    /\ IF is_connected(conn_state)
       THEN /\ ret' = [ret EXCEPT ![c] = "Unit"]
            /\ pc' = [pc EXCEPT ![c] = "done"]
       ELSE IF is_transitioning(conn_state)
       THEN /\ ret' = [ret EXCEPT ![c] = "Unit"]
            /\ pc' = [pc EXCEPT ![c] = "done"]
       ELSE /\ ret' = [ret EXCEPT ![c] = "None"]
            /\ pc' = [pc EXCEPT ![c] = "set_connecting"]
    /\ sent' = {}
    /\ UNCHANGED <<connVars, attempts, transport_calls, connUnchanged>>

NextReconnect ==
    \/ \E c \in Callers : CallerStep(c)
    \/ \E c \in Callers : handle_disconnection(c)
    \/ \E c \in Callers : handle_disconnection_connect(c)

SpecReconnect == Init /\ [][NextReconnect]_vars

\* C32: handle_disconnection on a Connected connection with
\* maintain_connection set starts a new attempt (the state becomes
\* Connecting and the transport connect is invoked); with maintain_connection
\* unset the state becomes Disconnected and no attempt is made.
C32_Reconnects ==
    [][\A c \in Callers :
          /\ (handle_disconnection(c) /\ ~maintain_connection) =>
                 /\ conn_state' = "Disconnected"
                 /\ pc'[c] = "done"
                 /\ transport_calls'[c] = 0
          /\ (handle_disconnection_connect(c) /\ conn_state = "Connected") =>
                 pc'[c] = "set_connecting"]_vars

\* What holds instead: on a Connected connection the connect(true) made by
\* handle_disconnection returns at its first check, the state stays
\* Connected and the transport is not called; an attempt is started only
\* when the state is Disconnected.
C32_ReconnectsWhenDisconnected ==
    [][\A c \in Callers :
          /\ (handle_disconnection(c) /\ ~maintain_connection) =>
                 /\ conn_state' = "Disconnected"
                 /\ pc'[c] = "done"
                 /\ transport_calls'[c] = 0
          /\ handle_disconnection_connect(c) =>
                 IF conn_state = "Disconnected"
                 THEN pc'[c] = "set_connecting"
                 ELSE /\ pc'[c] = "done"
                      /\ conn_state' = conn_state
                      /\ transport_calls'[c] = 0]_vars


(***************************************************************************)
(* The background task of the device manager with the one-second sleep of  *)
(* its select! timed.  The task creates a new sleep each time it enters    *)
(* select!, so the sleep branch runs only when a whole second passes in    *)
(* which rx.recv() returns nothing.  Seconds are counted by now; an event  *)
(* may arrive and be handled at any moment within a second.  The probe of  *)
(* serial number 1 in the map is the probe whose state is `state`.         *)
(***************************************************************************)
InSelect == background \in {"select", "select_part", "select_elapsed"}

\* The probe and a device that is not a probe.
WatchEvents ==
    {ScannerEvent("A", "PredictiveProbe", 1, -50),
     ScannerEvent("C", "Display", 2, -50)}

\* BleScanner::process_peripheral with the sleep timed.
ScannerReportWatched ==
    /\ scan_task = "running"
    /\ Len(events) < MaxEvents
    /\ \E e \in WatchEvents :
          events' = IF background = "check" \/ InSelect
                    THEN Append(events, e) ELSE events
    /\ sent' = {}
    /\ UNCHANGED <<probes, is_running, is_scanning, background, scan_task,
                   manager_call, manager_ret, managerUnchanged>>

\* A second boundary passes.  A sleep begun within the last second has run
\* for part of a second; one that has run for part of a second ends before
\* the next boundary.  Past MaxElapsed the clock is no longer counted: the
\* probe is stale from then on until an update.
SecondPasses ==
    /\ background # "select_part"
    /\ now' = IF now < MaxElapsed THEN now + 1 ELSE now
    /\ background' = IF background = "select" THEN "select_part"
                     ELSE background
    /\ sent' = {}
    /\ UNCHANGED <<state, is_stale, result, probes, is_running, is_scanning,
                   scan_task, events, manager_call, manager_ret, connVars,
                   characteristics, callVars, taskVars, codecVars, logVars,
                   spawnVars, lockVars>>

\* tokio::time::sleep(Duration::from_secs(1)) becomes ready.
SleepEnds ==
    /\ background = "select_part"
    /\ background' = "select_elapsed"
    /\ sent' = {}
    /\ UNCHANGED <<probes, is_running, is_scanning, scan_task, events,
                   manager_call, manager_ret, managerUnchanged>>

\* The discovery event is for the probe whose state is `state`.
is_for_probe(event) ==
    /\ IsSome(event.advertising_data)
    /\ is_predictive_probe(Unwrap(event.advertising_data).product_type)
    /\ Unwrap(event.advertising_data).serial_number = state.serial_number

\* select!: `Ok(event) = rx.recv()`, at any time of the sleep;
\* update_from_advertising stamps the probe and clears its stale flag.
select_recv ==
    /\ InSelect
    /\ events # <<>>
    /\ probes' = handle_discovery_event(probes, Head(events))
    /\ sent' = discovery_sent(probes, Head(events))
    /\ state' = IF is_for_probe(Head(events))
                   /\ state.serial_number \in DOMAIN probes'
                THEN [state EXCEPT !.last_update = now,
                                   !.rssi = Some(Head(events).rssi)]
                ELSE state
    /\ is_stale' = IF state' # state \/ is_for_probe(Head(events))
                   THEN FALSE ELSE is_stale
    /\ events' = Tail(events)
    /\ background' = "check"
    /\ UNCHANGED <<now, result, is_running, is_scanning, scan_task,
                   manager_call, manager_ret, connVars, characteristics,
                   callVars, taskVars, codecVars, logVars, spawnVars,
                   lockVars>>

\* check_stale_probes: the probes sent on probe_stale_tx.
check_stale_probes(map, stale) ==
    {[stale |-> serial] : serial \in {k \in DOMAIN map : stale}}

\* select!: the sleep branch; Probe::is_stale stores what it returns.
select_sleep ==
    /\ background = "select_elapsed"
    /\ \E stale \in {stale_after(now - state.last_update,
                                 DEFAULT_STALE_TIMEOUT)} :
          /\ is_stale' = IF DOMAIN probes # {} THEN stale ELSE is_stale
          /\ sent' = check_stale_probes(probes, stale)
    /\ background' = "check"
    /\ UNCHANGED <<now, state, result, probes, is_running, is_scanning,
                   scan_task, events, manager_call, manager_ret, connVars,
                   characteristics, callVars, taskVars, codecVars, logVars,
                   spawnVars, lockVars>>

BackgroundProgress == BackgroundCheck \/ select_recv \/ select_sleep

NextStaleWatch ==
    \/ \E outcome \in ManagerOutcomes : start_scanning(outcome)
    \/ \E outcome \in ManagerOutcomes : stop_begin("stop_scanning", outcome)
    \/ stop_await("stop_scanning")
    \/ ScannerReportWatched
    \/ ScanTaskEnd
    \/ SecondPasses
    \/ SleepEnds
    \/ BackgroundCheck
    \/ select_recv
    \/ select_sleep

\* Time passes, a sleep that is due ends, and the runtime runs the
\* background task whenever it can take a step.  Nothing is assumed about
\* when the scanner reports.
SpecStaleWatch ==
    /\ Init
    /\ [][NextStaleWatch]_vars
    /\ WF_vars(SecondPasses)
    /\ WF_vars(SleepEnds)
    /\ WF_vars(BackgroundProgress)

ProbeWatched ==
    /\ is_running
    /\ background \notin {"none", "ended"}
    /\ state.serial_number \in DOMAIN probes

ProbeOverdue == stale_after(now - state.last_update, DEFAULT_STALE_TIMEOUT)

StaleReported == [stale |-> state.serial_number] \in sent

\* C33: while scanning is running, a probe without an update for more than
\* 15 seconds is eventually reported on the probe-stale channel, however
\* often discovery events for other devices arrive; and a stale event is
\* only sent for a probe that is stale at the time of the check.  The
\* probe is taken before its first report (its stale flag, which the check
\* sets, is still clear).
C33_StaleReported ==
    /\ (ProbeWatched /\ ProbeOverdue /\ ~is_stale)
          ~> (StaleReported \/ ~is_running \/ ~ProbeOverdue)
    /\ [][StaleReported' => ProbeOverdue]_vars

\* What holds instead: a stale event is only sent by a check that finds the
\* probe stale, and a check runs only after a second without any received
\* event.
C33_StaleOnlyWhenStale ==
    [][StaleReported' =>
          /\ ProbeOverdue
          /\ background = "select_elapsed"
          /\ is_stale']_vars


(***************************************************************************)
(* The two decoders on the same sensor block, mode/color/id byte and       *)
(* battery/virtual-selection byte: bytes 5..17, 18 and 19 of an            *)
(* advertisement, bytes 8..20, 21 and 22 of a session status.              *)
(***************************************************************************)
ModeIdInputs == {0, 1, 38, 91, 128, 165, 218, 255}

SharedInputs ==
    {[kind |-> "shared",
      block |-> ProbeTemperatures_to_packed_bytes(t),
      mode_id_byte |-> m,
      status_byte |-> b] :
        t \in SensorArrayInputs, m \in ModeIdInputs, b \in 0..255}

\* The advertisement of a probe that carries the shared bytes.
SharedAdvBytes(in) ==
    [i \in 1..ADV_MIN_SIZE |->
        IF i = 1 THEN 1
        ELSE IF i \in 6..18 THEN in.block[i - 5]
        ELSE IF i = 19 THEN in.mode_id_byte
        ELSE IF i = 20 THEN in.status_byte
        ELSE 0]

\* The session status that carries the shared bytes.
SharedStatusBytes(in) ==
    [i \in 1..STATUS_MIN_SIZE |->
        IF i \in 9..21 THEN in.block[i - 8]
        ELSE IF i = 22 THEN in.mode_id_byte
        ELSE IF i = 23 THEN in.status_byte
        ELSE 0]

DecodeBoth ==
    /\ input.kind = "shared"
    /\ output.op = "none"
    /\ output' = [op |-> "parse",
                  advertising |-> AdvertisingData_parse(SharedAdvBytes(input)),
                  status |-> ProbeStatus_parse(SharedStatusBytes(input))]
    /\ UNCHANGED codecUnchanged

InitShared ==
    /\ InitSession
    /\ input \in SharedInputs
    /\ output = [op |-> "none"]

NextShared == DecodeBoth

SpecShared == InitShared /\ [][NextShared]_vars

\* The fields the two decoders fill from the shared bytes, other than the
\* core virtual temperature.
SharedFieldsAgree(a, s) ==
    /\ a.temperatures = s.temperatures
    /\ a.mode = s.mode
    /\ a.color = s.color
    /\ a.probe_id = s.probe_id
    /\ a.battery_status = s.battery_status
    /\ a.virtual_temperatures.sensor_selection
           = s.virtual_temperatures.sensor_selection
    /\ a.virtual_temperatures.surface = s.virtual_temperatures.surface
    /\ a.virtual_temperatures.ambient = s.virtual_temperatures.ambient

\* C34: given the same sensor block, mode/color/id byte and
\* battery/virtual-selection byte, the advertising decoder and the
\* session-status decoder produce identical temperatures, mode, color, id,
\* battery status, virtual sensor selection and core, surface and ambient
\* virtual temperatures.
C34_DecodersAgree ==
    output.op = "parse" =>
        /\ IsSome(output.advertising)
        /\ IsSome(output.status)
        /\ SharedFieldsAgree(Unwrap(output.advertising), Unwrap(output.status))
        /\ Unwrap(output.advertising).virtual_temperatures.core
               = Unwrap(output.status).virtual_temperatures.core

\* What holds instead: the decoders agree on every shared field but the
\* core virtual temperature, and on that one whenever the 3-bit core index
\* is below 6 or the selected reading is the sentinel; for index 6 or 7 the
\* advertising decoder shows no core temperature.
C34_DecodersAgreeBelowSix ==
    output.op = "parse" =>
        /\ IsSome(output.advertising)
        /\ IsSome(output.status)
        /\ SharedFieldsAgree(Unwrap(output.advertising), Unwrap(output.status))
        /\ LET a == Unwrap(output.advertising).virtual_temperatures
               s == Unwrap(output.status).virtual_temperatures
           IN  IF a.sensor_selection.core_sensor < 6 THEN a.core = s.core
               ELSE a.core = None


(***************************************************************************)
(* disconnect() by one task while another task calls connect().  Caller    *)
(* c1 connects and c2 disconnects; c1 starts no connect() between the      *)
(* return of a disconnect() and c2's next call, so a connection made in    *)
(* that time is made by a connect() that was already in progress.          *)
(***************************************************************************)
ConnectingTaskStep ==
    \/ \E m \in BOOLEAN : pc["c2"] # "done" /\ connect_begin("c1", m)
    \/ connect_set_connecting("c1")
    \/ \E connected \in BOOLEAN : connect_ble_check("c1", connected)
    \/ \E ok \in BOOLEAN : connect_attempt("c1", ok)
    \/ call_return("c1")

DisconnectingTaskStep ==
    \/ disconnect_begin("c2")
    \/ disconnect_set_disconnecting("c2")
    \/ \E ok \in BOOLEAN : disconnect_finish("c2", ok)
    \/ call_return("c2")

NextDisconnect == ConnectingTaskStep \/ DisconnectingTaskStep

SpecDisconnect == Init /\ [][NextDisconnect]_vars

\* C35: after disconnect() has returned the state is Disconnected and
\* maintain_connection is false, and it stays so until a new connect() call
\* is made, also when another task's connect() was in progress.
C35_StaysDisconnected ==
    pc["c2"] = "done" =>
        /\ conn_state = "Disconnected"
        /\ ~maintain_connection

\* What holds instead: the state is Disconnected at the moment
\* disconnect() returns.
C35_DisconnectedAtReturn ==
    [][(pc["c2"] # "done" /\ pc'["c2"] = "done") =>
          conn_state' = "Disconnected"]_vars


\* C36: whenever the probe reports Connected and no connect() or
\* disconnect() call is in progress, its characteristic handler is
\* installed; in particular a Probe::connect that returns an error does not
\* leave the probe Connected.  (Probe::connect and Probe::disconnect are
\* single steps here, so no call is in progress in any state.)
C36_ConnectedHasHandler == conn_state = "Connected" => characteristics

\* What holds instead: the handler is installed when Probe::connect returns
\* Ok, and a command on a Connected probe fails with NotConnected exactly
\* when the handler is missing.
C36_HandlerAfterOk ==
    /\ [][Probe_connect("Ok") =>
             /\ conn_state' = "Connected"
             /\ characteristics']_vars
    /\ [][\A id \in IdInputs, w \in WriteOutcomes :
             (set_id(id, w) /\ conn_state = "Connected") =>
                 (result' = "NotConnected" <=> ~characteristics)]_vars


(***************************************************************************)
(* Probe::set_prediction on a connected probe: the range check, the raw    *)
(* set point and the request payload.  Set points are in 1/100 degree; the *)
(* inputs are whole degrees and degrees + 0.35, where the product with     *)
(* 10.0 is exact or well inside a unit.                                    *)
(***************************************************************************)
\* `as u16` on an f64: truncation toward zero, saturating.
TruncU16(num, den) ==
    SaturateU16(IF num >= 0 THEN num \div den ELSE -((-num) \div den))

\* (0.0..=300.0).contains(&set_point_celsius)
set_point_in_range(celsius100) == celsius100 >= 0 /\ celsius100 <= 30000

\* (set_point_celsius * 10.0) as u16
set_point_raw(celsius100) == TruncU16(celsius100, 10)

\* (set_point_raw & 0x03FF) | (((mode & 0x03) as u16) << 10)
pack_prediction(mode, raw) == Low(raw, 10) + 1024 * Low(mode, 2)

\* The payload of the Set Prediction request.
build_set_prediction_request(mode, raw) ==
    to_le_bytes(pack_prediction(mode, raw))

PredictionModes == {"TimeToRemoval", "RemovalAndResting"}

SetPointInputs ==
    {[kind |-> "set_point", mode |-> m, celsius100 |-> c] :
        m \in PredictionModes,
        c \in {100 * d + f : d \in 0..300, f \in {0, 35}}
                \cup {-100, -5, 30100}}

SetPrediction ==
    /\ input.kind = "set_point"
    /\ output.op = "none"
    /\ output' =
          IF ~set_point_in_range(input.celsius100)
          THEN [op |-> "set_prediction", result |-> "InvalidParameter",
                payload |-> None]
          ELSE [op |-> "set_prediction", result |-> "Ok",
                payload |-> Some(build_set_prediction_request(
                                enum_to_raw("PredictionMode", input.mode),
                                set_point_raw(input.celsius100)))]
    /\ UNCHANGED codecUnchanged

InitPrediction ==
    /\ InitSession
    /\ input \in SetPointInputs
    /\ output = [op |-> "none"]

NextPrediction == SetPrediction

SpecPrediction == InitPrediction /\ [][NextPrediction]_vars

\* The fields of a request payload as the probe reads them: the set point
\* in 1/10 degree (bits 0-9) and the mode (bits 10-11).
SetPointField(payload) == payload[1] + 256 * Low(payload[2], 2)
ModeField(payload) == Low(Shr(payload[2], 2), 2)

AbsDiff(a, b) == IF a < b THEN b - a ELSE a - b

\* C39: for every set point from 0 to 300 degrees the 10-bit set-point
\* field of the request decodes (raw * 0.1) to the requested set point
\* within 0.1 degrees and the 2-bit mode field is the requested mode; a set
\* point outside the range is rejected with InvalidParameter and nothing is
\* sent.
C39_SetPointEncoded ==
    output.op = "set_prediction" =>
        IF set_point_in_range(input.celsius100)
        THEN /\ output.result = "Ok"
             /\ IsSome(output.payload)
             /\ AbsDiff(10 * SetPointField(Unwrap(output.payload)),
                        input.celsius100) <= 10
             /\ PredictionMode_from_raw(ModeField(Unwrap(output.payload)))
                    = input.mode
        ELSE /\ output.result = "InvalidParameter"
             /\ output.payload = None

\* What holds instead: the mode field and the rejection are as claimed, and
\* the set-point field is the raw set point modulo 1024, which is within
\* 0.1 degrees of the request up to 102.3 degrees only.
C39_SetPointModulo ==
    output.op = "set_prediction" =>
        IF set_point_in_range(input.celsius100)
        THEN /\ output.result = "Ok"
             /\ IsSome(output.payload)
             /\ SetPointField(Unwrap(output.payload))
                    = (input.celsius100 \div 10) % 1024
             /\ input.celsius100 < 10240 =>
                    AbsDiff(10 * SetPointField(Unwrap(output.payload)),
                            input.celsius100) <= 10
             /\ PredictionMode_from_raw(ModeField(Unwrap(output.payload)))
                    = input.mode
        ELSE /\ output.result = "InvalidParameter"
             /\ output.payload = None


(***************************************************************************)
(* DeviceManager::start_scanning and ::stop_scanning called by the callers *)
(* of Callers, with every spawned task kept apart.  A step ends where the  *)
(* call awaits (adapter.start_scan, adapter.stop_scan, a task handle), so  *)
(* the interleavings are those of any executor.  A task is "running" until *)
(* it has seen its flag cleared; the adapter's event stream is taken to    *)
(* open.                                                                   *)
(***************************************************************************)
Running(tasks) == {i \in DOMAIN tasks : tasks[i] = "running"}

\* tokio::spawn: the tasks afterwards; the new task's handle is its index.
spawn(tasks) == Append(tasks, "running")

scanningUnchanged ==
    <<now, state, is_stale, result, connVars, characteristics, current_state,
      maintain, attempts, transport_calls, taskVars, codecVars, logVars,
      probes, background, scan_task, events, manager_call, manager_ret,
      lockVars>>

\* Calls that may still spawn a scanner task, and a background task.
Starting == {c \in Callers : pc[c] = "start_scan"}

\* start_scanning up to adapter.start_scan(..).await: the is_running check,
\* and BleScanner::start_scanning's is_scanning check; when the scanner is
\* already scanning the call goes on to spawn the background task at once.
start_scanning_begin(c) ==
    /\ pc[c] = "idle"
    /\ Len(scan_tasks) + Cardinality(Starting) < MaxTasks
    /\ Len(background_tasks) + Cardinality(Starting) < MaxTasks
    /\ IF is_running
       THEN /\ ret' = [ret EXCEPT ![c] = "Ok"]
            /\ pc' = [pc EXCEPT ![c] = "done"]
            /\ UNCHANGED <<is_running, background_tasks, background_handle>>
       ELSE IF is_scanning
       THEN /\ is_running' = TRUE
            /\ background_tasks' = spawn(background_tasks)
            /\ background_handle' = Some(Len(background_tasks'))
            /\ ret' = [ret EXCEPT ![c] = "Ok"]
            /\ pc' = [pc EXCEPT ![c] = "done"]
       ELSE /\ pc' = [pc EXCEPT ![c] = "start_scan"]
            /\ UNCHANGED <<ret, is_running, background_tasks,
                           background_handle>>
    /\ sent' = {}
    /\ UNCHANGED <<is_scanning, scan_tasks, scan_handle, joined,
                   scanningUnchanged>>

\* adapter.start_scan returned: on an error the call returns it; else the
\* scanner sets is_scanning, spawns its event task and stores the handle,
\* and the manager sets is_running, spawns its background task and stores
\* the handle.
start_scanning_started(c, outcome) ==
    /\ pc[c] = "start_scan"
    /\ IF outcome = "Bluetooth"
       THEN /\ ret' = [ret EXCEPT ![c] = "Bluetooth"]
            /\ UNCHANGED <<is_scanning, is_running, scan_tasks, scan_handle,
                           background_tasks, background_handle>>
       ELSE /\ is_scanning' = TRUE
            /\ scan_tasks' = spawn(scan_tasks)
            /\ scan_handle' = Some(Len(scan_tasks'))
            /\ is_running' = TRUE
            /\ background_tasks' = spawn(background_tasks)
            /\ background_handle' = Some(Len(background_tasks'))
            /\ ret' = [ret EXCEPT ![c] = "Ok"]
    /\ pc' = [pc EXCEPT ![c] = "done"]
    /\ sent' = {}
    /\ UNCHANGED <<joined, scanningUnchanged>>

\* `if let Some(handle) = self.background_handle.write().take()`: the call
\* awaits the handle it took, or returns Ok.
take_background_handle(c) ==
    /\ joined' = [joined EXCEPT ![c] = background_handle]
    /\ background_handle' = None
    /\ IF background_handle = None
       THEN /\ ret' = [ret EXCEPT ![c] = "Ok"]
            /\ pc' = [pc EXCEPT ![c] = "done"]
       ELSE /\ pc' = [pc EXCEPT ![c] = "join_background"]
            /\ UNCHANGED ret

\* stop_scanning up to adapter.stop_scan().await: the is_running check and
\* store, and BleScanner::stop_scanning's is_scanning check and store.
stop_scanning_begin(c) ==
    /\ pc[c] = "idle"
    /\ IF ~is_running
       THEN /\ ret' = [ret EXCEPT ![c] = "Ok"]
            /\ pc' = [pc EXCEPT ![c] = "done"]
            /\ UNCHANGED <<is_running, is_scanning, joined,
                           background_handle>>
       ELSE /\ is_running' = FALSE
            /\ IF ~is_scanning
               THEN /\ take_background_handle(c)
                    /\ UNCHANGED is_scanning
               ELSE /\ is_scanning' = FALSE
                    /\ pc' = [pc EXCEPT ![c] = "stop_scan"]
                    /\ UNCHANGED <<ret, joined, background_handle>>
    /\ sent' = {}
    /\ UNCHANGED <<scan_tasks, background_tasks, scan_handle,
                   scanningUnchanged>>

\* adapter.stop_scan returned: on an error the call returns it; else the
\* scanner takes its handle and awaits it, or returns to the manager.
stop_scanning_stopped(c, outcome) ==
    /\ pc[c] = "stop_scan"
    /\ IF outcome = "Bluetooth"
       THEN /\ ret' = [ret EXCEPT ![c] = "Bluetooth"]
            /\ pc' = [pc EXCEPT ![c] = "done"]
            /\ UNCHANGED <<joined, scan_handle, background_handle>>
       ELSE IF scan_handle = None
       THEN /\ take_background_handle(c)
            /\ UNCHANGED scan_handle
       ELSE /\ joined' = [joined EXCEPT ![c] = scan_handle]
            /\ scan_handle' = None
            /\ pc' = [pc EXCEPT ![c] = "join_scan"]
            /\ UNCHANGED <<ret, background_handle>>
    /\ sent' = {}
    /\ UNCHANGED <<is_running, is_scanning, scan_tasks, background_tasks,
                   scanningUnchanged>>

\* `let _ = handle.await` in BleScanner::stop_scanning returned.
stop_scanning_scan_joined(c) ==
    /\ pc[c] = "join_scan"
    /\ scan_tasks[Unwrap(joined[c])] = "ended"
    /\ take_background_handle(c)
    /\ sent' = {}
    /\ UNCHANGED <<is_running, is_scanning, scan_tasks, background_tasks,
                   scan_handle, scanningUnchanged>>

\* `let _ = handle.await` in DeviceManager::stop_scanning returned.
stop_scanning_background_joined(c) ==
    /\ pc[c] = "join_background"
    /\ background_tasks[Unwrap(joined[c])] = "ended"
    /\ joined' = [joined EXCEPT ![c] = None]
    /\ ret' = [ret EXCEPT ![c] = "Ok"]
    /\ pc' = [pc EXCEPT ![c] = "done"]
    /\ sent' = {}
    /\ UNCHANGED <<is_running, is_scanning, scan_tasks, background_tasks,
                   scan_handle, background_handle, scanningUnchanged>>

\* A scanner event task leaves `while *is_scanning.read()`.
scan_task_ends(i) ==
    /\ i \in Running(scan_tasks)
    /\ ~is_scanning
    /\ scan_tasks' = [scan_tasks EXCEPT ![i] = "ended"]
    /\ sent' = {}
    /\ UNCHANGED <<pc, ret, is_running, is_scanning, background_tasks,
                   scan_handle, background_handle, joined,
                   scanningUnchanged>>

\* A background task leaves `while is_running.load(..)`.
background_task_ends(i) ==
    /\ i \in Running(background_tasks)
    /\ ~is_running
    /\ background_tasks' = [background_tasks EXCEPT ![i] = "ended"]
    /\ sent' = {}
    /\ UNCHANGED <<pc, ret, is_running, is_scanning, scan_tasks,
                   scan_handle, background_handle, joined,
                   scanningUnchanged>>

NextScanning ==
    \/ \E c \in Callers : start_scanning_begin(c)
    \/ \E c \in Callers, outcome \in ManagerOutcomes :
          start_scanning_started(c, outcome)
    \/ \E c \in Callers : stop_scanning_begin(c)
    \/ \E c \in Callers, outcome \in ManagerOutcomes :
          stop_scanning_stopped(c, outcome)
    \/ \E c \in Callers : stop_scanning_scan_joined(c)
    \/ \E c \in Callers : stop_scanning_background_joined(c)
    \/ \E c \in Callers : call_return(c)
    \/ \E i \in 1..MaxTasks : scan_task_ends(i)
    \/ \E i \in 1..MaxTasks : background_task_ends(i)

SpecScanning == Init /\ [][NextScanning]_vars

\* The task can still be waited for: its handle is stored, or a
\* stop_scanning call holds it.
Joinable(i, handle, at) ==
    \/ handle = Some(i)
    \/ \E c \in Callers : pc[c] = at /\ joined[c] = Some(i)

\* C37: under any interleaving of start_scanning and stop_scanning calls
\* there is at most one device-manager background task and at most one
\* scanner event task at a time, and every task that was started is waited
\* for by a later stop_scanning (its handle is not lost).
C37_OneTaskEach ==
    /\ Cardinality(Running(background_tasks)) <= 1
    /\ Cardinality(Running(scan_tasks)) <= 1
    /\ \A i \in Running(background_tasks) :
          Joinable(i, background_handle, "join_background")
    /\ \A i \in Running(scan_tasks) : Joinable(i, scan_handle, "join_scan")


\* ---------------------------------------------------------------------
\* The characteristics lock of a Probe. It is a parking_lot RwLock: read()
\* and write() are blocking calls, not await points, and the guard of
\* read() lives until the end of the scope that took it. The tasks are
\* polled by the threads of the executor the application has built, a
\* current-thread one to begin with.
\* ---------------------------------------------------------------------

lockUnchanged ==
    <<now, state, is_stale, sent, result, current_state, maintain, attempts,
      transport_calls, listener, stream, rx, session, codecVars, logVars,
      probes, is_running, is_scanning, background, scan_task, events,
      manager_call, manager_ret, spawnVars, workers>>

\* Some executor thread is not waiting inside a lock call, so it can poll a
\* task.
thread_free == Cardinality(blocked) < workers

\* Await points of the calls below: the task is suspended until the
\* transport answers.
SuspendedAt == {"write", "stop_notifications", "disconnect"}

\* Probe::read_session_info up to the await of the transport write in
\* send_uart_message: the is_connected() guard, then the read guard of
\* characteristics is taken and kept over the await.
read_session_info_begin(c) ==
    /\ thread_free
    /\ pc[c] = "idle"
    /\ IF conn_state # "Connected" \/ ~characteristics
       THEN /\ ret' = [ret EXCEPT ![c] = "NotConnected"]
            /\ pc' = [pc EXCEPT ![c] = "done"]
            /\ UNCHANGED guards
       ELSE /\ guards' = guards \cup {c}
            /\ pc' = [pc EXCEPT ![c] = "write"]
            /\ UNCHANGED ret
    /\ UNCHANGED <<connVars, characteristics, is_listening, handler_task,
                   blocked, lockUnchanged>>

\* The transport write has answered with w: send_uart_message returns and
\* its guard is dropped.
read_session_info_written(c, w) ==
    /\ thread_free
    /\ pc[c] = "write"
    /\ guards' = guards \ {c}
    /\ ret' = [ret EXCEPT ![c] = w]
    /\ pc' = [pc EXCEPT ![c] = "done"]
    /\ UNCHANGED <<connVars, characteristics, is_listening, handler_task,
                   blocked, lockUnchanged>>

\* Probe::disconnect up to its first await: with a handler, the read guard
\* of the `if let` is kept over stop_notifications().await; without one the
\* call goes on to connection.disconnect().await.
Probe_disconnect_begin(c) ==
    /\ thread_free
    /\ pc[c] = "idle"
    /\ IF characteristics
       THEN /\ guards' = guards \cup {c}
            /\ pc' = [pc EXCEPT ![c] = "stop_notifications"]
            /\ UNCHANGED maintain_connection
       ELSE /\ maintain_connection' = FALSE
            /\ pc' = [pc EXCEPT ![c] = "disconnect"]
            /\ UNCHANGED guards
    /\ UNCHANGED <<conn_state, characteristics, is_listening, handler_task,
                   ret, blocked, lockUnchanged>>

\* stop_notifications() has returned: the `if let` ends and drops its guard,
\* and connection.disconnect() runs up to its await of the transport.
Probe_disconnect_stopped(c) ==
    /\ thread_free
    /\ pc[c] = "stop_notifications"
    /\ guards' = guards \ {c}
    /\ is_listening' = FALSE
    /\ maintain_connection' = FALSE
    /\ pc' = [pc EXCEPT ![c] = "disconnect"]
    /\ UNCHANGED <<conn_state, characteristics, handler_task, ret, blocked,
                   lockUnchanged>>

\* Probe.characteristics = None under the write lock; the handler task ends
\* once the handler is dropped.
clear_characteristics(c) ==
    /\ characteristics' = FALSE
    /\ handler_task' = IF handler_task = "running" THEN "done"
                       ELSE handler_task
    /\ ret' = [ret EXCEPT ![c] = "Ok"]
    /\ pc' = [pc EXCEPT ![c] = "done"]

\* connection.disconnect() has returned with outcome: an error returns at
\* the `?`; otherwise characteristics.write() is called, which is granted
\* at once when no guard is out and makes the thread wait when one is.
Probe_disconnect_disconnected(c, outcome) ==
    /\ thread_free
    /\ pc[c] = "disconnect"
    /\ outcome = "Bluetooth" => conn_state = "Connected"
    /\ conn_state' = "Disconnected"
    /\ IF outcome = "Bluetooth"
       THEN /\ ret' = [ret EXCEPT ![c] = "Bluetooth"]
            /\ pc' = [pc EXCEPT ![c] = "done"]
            /\ UNCHANGED <<characteristics, handler_task, blocked>>
       ELSE IF guards = {}
       THEN /\ clear_characteristics(c)
            /\ UNCHANGED blocked
       ELSE /\ blocked' = blocked \cup {c}
            /\ pc' = [pc EXCEPT ![c] = "write_lock"]
            /\ UNCHANGED <<characteristics, handler_task, ret>>
    /\ UNCHANGED <<maintain_connection, is_listening, guards, lockUnchanged>>

\* The thread waiting inside characteristics.write() gets the lock once
\* every read guard has been dropped.
Probe_disconnect_locked(c) ==
    /\ pc[c] = "write_lock"
    /\ guards = {}
    /\ blocked' = blocked \ {c}
    /\ clear_characteristics(c)
    /\ UNCHANGED <<connVars, is_listening, guards, lockUnchanged>>

\* No call is in progress.
AllIdle == \A c \in Callers : pc[c] = "idle"

\* The application runs the probe's calls on an executor of n threads.
Runtime_build(n) ==
    /\ AllIdle
    /\ workers' = n
    /\ UNCHANGED <<connVars, characteristics, is_listening, handler_task,
                   pc, ret, guards, blocked, now, state, is_stale, sent,
                   result, current_state, maintain, attempts, transport_calls,
                   listener, stream, rx, session, codecVars, logVars, probes,
                   is_running, is_scanning, background, scan_task, events,
                   manager_call, manager_ret, spawnVars>>

NextLocks ==
    \/ \E n \in 1..MaxWorkers : Runtime_build(n)
    \/ \E outcome \in {"Ok", "Bluetooth", "ConnectionFailed"} :
          AllIdle /\ Probe_connect(outcome)
    \/ \E c \in Callers : read_session_info_begin(c)
    \/ \E c \in Callers, w \in {"Ok", "Bluetooth"} :
          read_session_info_written(c, w)
    \/ \E c \in Callers : Probe_disconnect_begin(c)
    \/ \E c \in Callers : Probe_disconnect_stopped(c)
    \/ \E c \in Callers, outcome \in {"Ok", "Bluetooth"} :
          Probe_disconnect_disconnected(c, outcome)
    \/ \E c \in Callers : Probe_disconnect_locked(c)
    \/ \E c \in Callers : call_return(c)

SpecLocks == Init /\ [][NextLocks]_vars

\* A caller keeps a read guard while its task is suspended at an await.
GuardOverAwait == \E c \in guards : pc[c] \in SuspendedAt

\* C38: no task is ever made to wait inside a lock call while another task
\* is suspended with the lock, so that on every executor, a single-threaded
\* one too, a thread is free to poll the tasks whose transport call has
\* answered.
C38_NoTaskBlocked == thread_free

\* C38, first half on its own: no guard of the characteristics lock is out
\* while its holder is suspended at an await.
C38_NoGuardOverAwait == ~GuardOverAwait

\* The state the calls cannot leave: one task waits in
\* characteristics.write(), the other is suspended with the read guard.
C38_Stuck ==
    /\ blocked # {}
    /\ \E c \in guards : pc[c] = "write"
    /\ ~ENABLED NextLocks

====
